---- MODULE Spec2Model ----
(***************************************************************************)
(* Key registry, scope tree and reference resolution of the rune runtime   *)
(* (rune/runtime/metadata.py, rune/runtime/base_data_class.py).            *)
(*                                                                         *)
(* The objects are a small document tree in the shape of the classes of    *)
(* test_rune_parent.py: a container deep (DeepRef2), two instances root    *)
(* and root2 of the scope type (Root) and a leaf b (B).  A Root owns a B   *)
(* in its field b and has the reference field bAddress; deep owns the two  *)
(* Roots and has a list field bList of B.                                  *)
(***************************************************************************)
EXTENDS Integers, FiniteSets, Sequences, TLC

\* ------------------------------------------------------------------------
\* Universe
\* ------------------------------------------------------------------------

\* Python's None, for object-valued slots (parent, registry entries)
None == "None"

\* Python's None, for key-valued metadata slots (a falsy key value)
NoKey == 0

\* number of distinct keys uuid.uuid4() can mint in one run of the model
MaxUuid == 1

Nodes == {"deep", "root", "root2", "b"}

\* instances of the class whose fully qualified name is the scope type
ScopeNodes == {"root", "root2"}

\* KeyType
INTERNAL == "internal"
EXTERNAL == "external"
SCOPED == "scoped"
KeyType == {INTERNAL, EXTERNAL, SCOPED}

\* key strings that documents and callers supply
DocKeys == {1}

\* key strings minted by uuid.uuid4(): never equal to a supplied key
UuidKeys == {100 + i : i \in 1..MaxUuid}

\* a second key string a caller can supply
OtherKeys == {2}

Keys == DocKeys \cup OtherKeys \cup UuidKeys

\* all iteration orders a dict holding maps of the kinds in ts can have
KindOrders(ts) ==
    {s \in [1..Cardinality(ts) -> ts] :
        \A i, j \in 1..Cardinality(ts) : i # j => s[i] # s[j]}

VARIABLES
    parent,     \* parent[n]: __rune_parent of n, or None
    maps,       \* maps[n][t][k]: __rune_object_maps of n; None = no entry
    meta,       \* meta[n][t]: value of the key tag of kind t in n's metadata
    bAddress,   \* bAddress[o]: the value of the field bAddress of the Root o
    refs,       \* refs[o]: __rune_references entry of bAddress, or NoRef
    bList,      \* the value of the list field bList of deep
    doc,        \* the document being deserialized
    pc,         \* the phase of rune_deserialize
    err,        \* outcome of the last operation: "none" or the error raised
    op,         \* the last operation: <<name, object>>
    out,        \* what the last model_dump returned
    meta_check_disabled,    \* BaseMetaDataMixin.__meta_check_disabled
    frames,      \* the validate_model calls that have not returned
    store,      \* __rune_metadata of the value a field with an allow-list holds
    root_container,      \* root_container[n]: n's __dict__ holds __rune_root_metadata
    field,      \* a field of a declared type: the node read into it, its value, the tag written
    threads,      \* threads[t]: the validate_model call thread t is in, or NotValidating
    _CONDITIONS_REGISTRY,      \* _CONDITIONS_REGISTRY[c]: the names of the conditions of class c, in the order of the dict
    instances,      \* the instances conditions are validated on: their fields and data
    validation      \* what the last validation call evaluated, collected and raised

vars == <<parent, maps, meta, bAddress, refs, bList, doc, pc, err, op, out,
          meta_check_disabled, frames,
          store,
          root_container,
          field,
          threads,
          _CONDITIONS_REGISTRY,
          instances,
          validation>>

\* the ValueErrors of metadata.py, named by their message
ValueErrors == {"NotAllowedMetadata", "AllowedMetaDiffers",
                "AlreadyHasExternalKey", "DuplicatedKeys",
                "NeedObjectAsTarget", "KeyTypeShouldBeInternal",
                "RefTypeNotAllowed", "IncompatibleTypes", "CantBeAReference"}

EmptyMap == [k \in Keys |-> None]
EmptyMaps == [t \in KeyType |-> EmptyMap]

MapKeys(m) == {k \in Keys : m[k] # None}

\* ------------------------------------------------------------------------
\* Field values
\* ------------------------------------------------------------------------

\* the value of a field: None, an object of the tree ("node"), an object
\* built for this field alone ("own"), or an UnresolvedReference
Val(tag, id, key, key_type) ==
    [tag |-> tag, id |-> id, key |-> key, key_type |-> key_type]

NoneVal == Val("None", None, NoKey, None)
OwnVal == Val("own", None, NoKey, None)
NodeVal(n) == Val("node", n, NoKey, None)

\* UnresolvedReference.__init__
UnresolvedReference(key, key_type) == Val("unresolved", None, key, key_type)

NoRef == <<NoKey, None>>

\* ------------------------------------------------------------------------
\* The declarations of the classes
\* ------------------------------------------------------------------------

\* the tags a field declaration lists in the validator's allowed_meta,
\* given as the key kinds whose key tag is allowed on the object n
allowed_meta(n) ==
    CASE n = "deep" -> {}
      [] n = "root" -> {SCOPED}
      [] n = "root2" -> {EXTERNAL, SCOPED}
      [] n = "b" -> KeyType

\* the declared fields: which object a field of which object can own
CanHold(p, c) ==
    \/ p = "deep" /\ c \in {"root", "root2"}
    \/ p \in {"root", "root2"} /\ c = "b"

\* _KEY_REF_CONSTRAINTS['bAddress'] of Root, as key kinds
KEY_REF_CONSTRAINTS == {SCOPED, EXTERNAL}

\* the reference tags in the allowed_meta of the validator of bAddress,
\* as key kinds: the metadata slots of an object built for the field
bAddress_allowed_meta == {SCOPED}

\* isinstance(target, B), B the declared type of bAddress
IsInstanceOfB(n) == n = "b"

\* ------------------------------------------------------------------------
\* BaseMetaDataMixin (metadata.py)
\* ------------------------------------------------------------------------

\* the object state the methods read and write
State == [parent |-> parent, maps |-> maps, meta |-> meta,
          bAddress |-> bAddress, refs |-> refs,
          root_container |-> root_container]

Ok(st) == [st |-> st, err |-> "none"]
Raise(st, e) == [st |-> st, err |-> e]

get_rune_parent(par, n) == par[n]

is_scope_instance(n) == n \in ScopeNodes

\* a _get_object_map that does not bubble up: every node uses its own maps
_get_object_map_own(par, mps, n, t) == n

\* a _get_object_map that keeps one registry for every object
_get_object_map_shared(par, mps, n, t) == "deep"

\* the node whose __rune_object_maps[t] _get_object_map returns for n
RECURSIVE _get_object_map(_, _, _, _)
_get_object_map(par, mps, n, t) ==
    IF get_rune_parent(par, n) = None
    THEN n
    ELSE IF MapKeys(mps[n][t]) # {}
         THEN n
         ELSE _get_object_map(par, mps, get_rune_parent(par, n), t)

\* the object under key, or "KeyError"
get_object_by_key(par, mps, n, key, t) ==
    LET o == mps[_get_object_map(par, mps, n, t)][t][key]
    IN IF o = None THEN "KeyError" ELSE o

\* _check_props_allowed for the key tag of kind t
_check_props_allowed(n, t) == t \in allowed_meta(n)

\* uuid.uuid4(): a key string that occurs nowhere yet
UsedKeys(st) ==
    {st.meta[n][t] : n \in Nodes, t \in KeyType}
        \cup UNION {MapKeys(st.maps[n][t]) : n \in Nodes, t \in KeyType}

CanMint(st) == UuidKeys \ UsedKeys(st) # {}

uuid4(st) == CHOOSE k \in UuidKeys \ UsedKeys(st) :
                \A j \in UuidKeys \ UsedKeys(st) : k <= j

\* the item assignment self._get_object_map(key_type)[key] = self
SetItem(st, self, key_type, key) ==
    [st EXCEPT !.maps[_get_object_map(st.parent, st.maps, self, key_type)]
                     [key_type][key] = self]

\* a get_or_create_key that stores the key and registers nothing
get_or_create_key_unregistered(st, self) ==
    IF st.meta[self][INTERNAL] # NoKey
    THEN [st |-> st, err |-> "none", key |-> st.meta[self][INTERNAL]]
    ELSE IF ~_check_props_allowed(self, INTERNAL)
    THEN [st |-> st, err |-> "NotAllowedMetadata", key |-> NoKey]
    ELSE [st |-> [st EXCEPT !.meta[self][INTERNAL] = uuid4(st)],
          err |-> "none", key |-> uuid4(st)]

\* a get_or_create_key that stores the key unchecked and leaves it in place
\* when it raises
get_or_create_key_partial(st, self) ==
    IF st.meta[self][INTERNAL] # NoKey
    THEN [st |-> st, err |-> "none", key |-> st.meta[self][INTERNAL]]
    ELSE IF ~_check_props_allowed(self, INTERNAL)
    THEN [st |-> [st EXCEPT !.meta[self][INTERNAL] = uuid4(st)],
          err |-> "NotAllowedMetadata", key |-> NoKey]
    ELSE [st |-> SetItem([st EXCEPT !.meta[self][INTERNAL] = uuid4(st)],
                         self, INTERNAL, uuid4(st)),
          err |-> "none", key |-> uuid4(st)]

\* get_or_create_key: .key is the key returned
get_or_create_key(st, self) ==
    IF st.meta[self][INTERNAL] # NoKey
    THEN [st |-> st, err |-> "none", key |-> st.meta[self][INTERNAL]]
    ELSE IF ~_check_props_allowed(self, INTERNAL)
    THEN [st |-> st, err |-> "NotAllowedMetadata", key |-> NoKey]
    ELSE [st |-> SetItem([st EXCEPT !.meta[self][INTERNAL] = uuid4(st)],
                         self, INTERNAL, uuid4(st)),
          err |-> "none", key |-> uuid4(st)]

\* a set_external_key that replaces a key the node already has
set_external_key_replace(st, self, key, key_type) ==
    IF st.meta[self][key_type] = key
    THEN Ok(st)
    ELSE IF ~_check_props_allowed(self, key_type)
    THEN Raise(st, "NotAllowedMetadata")
    ELSE Ok(SetItem([st EXCEPT !.meta[self][key_type] = key],
                    self, key_type, key))

\* set_external_key(self, key, key_type)
set_external_key(st, self, key, key_type) ==
    LET aux == st.meta[self][key_type]
    IN IF aux # NoKey /\ aux # key
       THEN Raise(st, "AlreadyHasExternalKey")
       ELSE IF aux = key
       THEN Ok(st)
       ELSE IF ~_check_props_allowed(self, key_type)
       THEN Raise(st, "NotAllowedMetadata")
       ELSE Ok(SetItem([st EXCEPT !.meta[self][key_type] = key],
                       self, key_type, key))

\* the loop of _update_object_maps without the test for duplicated keys
RECURSIVE MergeMaps_unchecked(_, _, _, _, _)
MergeMaps_unchecked(mps, self, new_maps, order, i) ==
    IF i > Len(order)
    THEN [maps |-> mps, err |-> "none"]
    ELSE MergeMaps_unchecked(
            [mps EXCEPT ![self][order[i]] =
                [k \in Keys |-> IF new_maps[order[i]][k] # None
                                THEN new_maps[order[i]][k] ELSE @[k]]],
            self, new_maps, order, i + 1)

\* the loop of _update_object_maps over new_maps.items(), from position i
RECURSIVE MergeMaps(_, _, _, _, _)
MergeMaps(mps, self, new_maps, order, i) ==
    IF i > Len(order)
    THEN [maps |-> mps, err |-> "none"]
    ELSE LET t == order[i]
         IN IF MapKeys(mps[self][t]) \cap MapKeys(new_maps[t]) # {}
            THEN [maps |-> mps, err |-> "DuplicatedKeys"]
            ELSE MergeMaps(
                    [mps EXCEPT ![self][t] =
                        [k \in Keys |-> IF new_maps[t][k] # None
                                        THEN new_maps[t][k] ELSE @[k]]],
                    self, new_maps, order, i + 1)

\* an _extract_scoped_map that keeps nothing at a scope boundary
_extract_scoped_map_none(self, new_maps) ==
    [scoped |-> EmptyMap, maps |-> new_maps]

\* _extract_scoped_map: at a scope boundary the Scoped map is taken out of
\* the maps that travel on to the parent
_extract_scoped_map(self, new_maps) ==
    IF is_scope_instance(self)
    THEN [scoped |-> new_maps[SCOPED],
          maps |-> [new_maps EXCEPT ![SCOPED] = EmptyMap]]
    ELSE [scoped |-> EmptyMap, maps |-> new_maps]

RECURSIVE _update_object_maps(_, _, _, _, _)
_update_object_maps(par, mps, self, new_maps, order) ==
    IF get_rune_parent(par, self) # None
    THEN LET ex == _extract_scoped_map(self, new_maps)
             up == _update_object_maps(par, mps, get_rune_parent(par, self),
                                       ex.maps, order)
         IN IF up.err # "none"
            THEN up
            ELSE IF MapKeys(ex.scoped) = {}
                 THEN up
                 ELSE MergeMaps(up.maps, self,
                                [EmptyMaps EXCEPT ![SCOPED] = ex.scoped],
                                order, 1)
    ELSE MergeMaps(mps, self, new_maps, order, 1)

\* a set_rune_parent that pops the standalone maps and merges nothing
set_rune_parent_drop(st, self, p, order) ==
    Ok([st EXCEPT !.parent[self] = p, !.maps[self] = EmptyMaps])

\* set_rune_parent: the parent is stored first, then the popped maps merged;
\* order is the iteration order of the popped dict
set_rune_parent(st, self, p, order) ==
    LET par1 == [st.parent EXCEPT ![self] = p]
        popped == st.maps[self]
        mps1 == [st.maps EXCEPT ![self] = EmptyMaps]
        res == IF \A t \in KeyType : MapKeys(popped[t]) = {}
               THEN [maps |-> mps1, err |-> "none"]
               ELSE _update_object_maps(par1, mps1, self, popped, order)
    IN [st |-> [st EXCEPT !.parent = par1, !.maps = res.maps],
        err |-> res.err]

\* _register_keys: every truthy key tag of the metadata is written into the
\* map _get_object_map returns, by plain item assignment
RECURSIVE _register_keys(_, _, _, _)
_register_keys(st, self, metadata, todo) ==
    IF todo = {}
    THEN st
    ELSE LET t == CHOOSE x \in todo : TRUE
         IN _register_keys(SetItem(st, self, t, metadata[t]),
                           self, metadata, todo \ {t})

NoMetadata == [t \in KeyType |-> NoKey]

\* the key tags a document node can carry
KeyMetadata == [KeyType -> DocKeys \cup {NoKey}]

\* ComplexTypeMetaDataMixin.deserialize from "Model creation" on, for the
\* object self that model_validate has just built from a document node with
\* the key tags metadata
deserialize(st, self, metadata) ==
    LET tags == {t \in KeyType : metadata[t] # NoKey}
    IN IF ~(tags \subseteq allowed_meta(self))
       THEN Raise(st, "AllowedMetaDiffers")
       ELSE Ok(_register_keys([st EXCEPT !.meta[self] = metadata],
                              self, metadata, tags))

\* ------------------------------------------------------------------------
\* Reference and bind_property_to (metadata.py)
\* ------------------------------------------------------------------------

\* the target argument of Reference: an object or a key string
ObjTarget(n) == [isobj |-> TRUE, obj |-> n, key |-> NoKey]
StrTarget(k) == [isobj |-> FALSE, obj |-> None, key |-> k]

NoReference == [target |-> None, target_key |-> NoKey, key_type |-> None]

\* Reference.__init__: ext_key = NoKey and key_type = None stand for the
\* arguments left out; .ref is the Reference built
Reference(st, target, ext_key, key_type, par) ==
    IF ~target.isobj /\ ext_key # NoKey
    THEN [st |-> st, err |-> "NeedObjectAsTarget", ref |-> NoReference]
    ELSE IF ext_key # NoKey
    THEN LET kt == IF key_type = None THEN EXTERNAL ELSE key_type
             r == set_external_key(st, target.obj, ext_key, kt)
         IN [st |-> r.st, err |-> r.err,
             ref |-> IF r.err # "none" THEN NoReference
                     ELSE [target |-> target.obj, target_key |-> ext_key,
                           key_type |-> kt]]
    ELSE IF target.isobj
    THEN IF key_type # None /\ key_type # INTERNAL
         THEN [st |-> st, err |-> "KeyTypeShouldBeInternal",
               ref |-> NoReference]
         ELSE LET r == get_or_create_key(st, target.obj)
              IN [st |-> r.st, err |-> r.err,
                  ref |-> IF r.err # "none" THEN NoReference
                          ELSE [target |-> target.obj, target_key |-> r.key,
                                key_type |-> INTERNAL]]
    ELSE LET kt == IF key_type = None THEN EXTERNAL ELSE key_type
             o == get_object_by_key(st.parent, st.maps, par, target.key, kt)
         IN IF o = "KeyError"
            THEN [st |-> st, err |-> "KeyError", ref |-> NoReference]
            ELSE [st |-> st, err |-> "none",
                  ref |-> [target |-> o, target_key |-> target.key,
                           key_type |-> kt]]

\* UnresolvedReference.get_reference(parent)
get_reference(st, obj, par) ==
    Reference(st, StrTarget(obj.key), NoKey, obj.key_type, par)

\* getattr(self, '_KEY_REF_CONSTRAINTS', {}).get(property_nm, {})
allowed_ref_types(self, property_nm) ==
    IF self \in ScopeNodes /\ property_nm = "bAddress"
    THEN KEY_REF_CONSTRAINTS
    ELSE {}

\* the reference tags among the metadata slots of the object old_val
old_val_allowed_refs(old_val) ==
    IF old_val.tag = "own" THEN bAddress_allowed_meta ELSE {}

\* the checks of bind_property_to with the type of the target tested first
BindChecks_type_first(st, self, property_nm, ref) ==
    IF ~IsInstanceOfB(ref.target)
    THEN "IncompatibleTypes"
    ELSE IF ref.key_type \notin allowed_ref_types(self, property_nm)
    THEN "RefTypeNotAllowed"
    ELSE LET old_val == st.bAddress[self]
         IN IF st.refs[self] = NoRef /\ old_val.tag = "None"
            THEN "CantBeAReference"
            ELSE IF /\ st.refs[self] = NoRef
                    /\ old_val.tag \in {"own", "node"}
                    /\ ref.key_type \notin old_val_allowed_refs(old_val)
            THEN "NotAllowedMetadata"
            ELSE "none"

\* the three checks of bind_property_to, in order: the error raised or "none"
BindChecks(st, self, property_nm, ref) ==
    IF ref.key_type \notin allowed_ref_types(self, property_nm)
    THEN "RefTypeNotAllowed"
    ELSE IF ~IsInstanceOfB(ref.target)
    THEN "IncompatibleTypes"
    ELSE LET old_val == st.bAddress[self]
         IN IF st.refs[self] = NoRef /\ old_val.tag = "None"
            THEN "CantBeAReference"
            ELSE IF /\ st.refs[self] = NoRef
                    /\ old_val.tag \in {"own", "node"}
                    /\ ref.key_type \notin old_val_allowed_refs(old_val)
            THEN "NotAllowedMetadata"
            ELSE "none"

\* a bind_property_to that assigns with setattr, which makes the target a
\* child of self
bind_property_to_setattr(st, self, property_nm, ref) ==
    IF BindChecks(st, self, property_nm, ref) # "none"
    THEN Raise(st, BindChecks(st, self, property_nm, ref))
    ELSE Ok([st EXCEPT !.bAddress[self] = NodeVal(ref.target),
                       !.refs[self] = <<ref.target_key, ref.key_type>>,
                       !.parent[ref.target] = self])

\* a bind_property_to that records the binding as soon as the kind and the
\* type are accepted, before it looks at the current value
bind_property_to_record_first(st, self, property_nm, ref) ==
    LET e == BindChecks(st, self, property_nm, ref)
        rec == [st EXCEPT !.refs[self] = <<ref.target_key, ref.key_type>>]
    IN IF e \in {"RefTypeNotAllowed", "IncompatibleTypes"}
       THEN Raise(st, e)
       ELSE IF e # "none"
       THEN Raise(rec, e)
       ELSE Ok([rec EXCEPT !.bAddress[self] = NodeVal(ref.target)])

\* bind_property_to(self, property_nm, ref): the checks, then the two
\* assignments self.__dict__[property_nm] = ref.target and
\* refs[property_nm] = (ref.target_key, ref.key_type)
bind_property_to(st, self, property_nm, ref) ==
    IF BindChecks(st, self, property_nm, ref) # "none"
    THEN Raise(st, BindChecks(st, self, property_nm, ref))
    ELSE Ok([st EXCEPT !.bAddress[self] = NodeVal(ref.target),
                       !.refs[self] = <<ref.target_key, ref.key_type>>])

\* ------------------------------------------------------------------------
\* BaseDataClass (base_data_class.py)
\* ------------------------------------------------------------------------

\* the value of the field of p that owns c
OwnedField(st, p, c) == IF st.parent[c] = p THEN NodeVal(c) ELSE NoneVal

ListVal == Val("list", None, NoKey, None)

\* self.__dict__.items(), values only: the declared fields in their order,
\* then the entries the runtime adds, of which __rune_parent holds an object
DictItems(st, self) ==
    (CASE self = "deep" -> <<OwnedField(st, "deep", "root"),
                            OwnedField(st, "deep", "root2"), ListVal>>
       [] self \in ScopeNodes -> <<OwnedField(st, self, "b"),
                                   st.bAddress[self]>>
       [] self = "b" -> <<>>)
    \o (IF st.parent[self] = None THEN <<>>
        ELSE <<NodeVal(st.parent[self])>>)

\* the second loop of resolve_references: bind every collected reference
RECURSIVE BindAll(_, _, _, _)
BindAll(st, self, collected, i) ==
    IF i > Len(collected)
    THEN Ok(st)
    ELSE LET r == bind_property_to(st, self, "bAddress", collected[i])
         IN IF r.err # "none" THEN r
            ELSE BindAll(r.st, self, collected, i + 1)

\* resolve_references(self); stack holds the objects whose call has not
\* returned.  A call on an object of the stack repeats the walk that led to
\* it and ends in RecursionError.  obj.get_reference() is called without
\* the argument its parameter "parent" requires, which raises TypeError
\* before a Reference is built.
RECURSIVE resolve_references(_, _, _)
RECURSIVE ResolveLoop(_, _, _, _, _, _)
ResolveLoop(st, self, items, i, stack, collected) ==
    IF i > Len(items)
    THEN BindAll(st, self, collected, 1)
    ELSE LET obj == items[i]
         IN IF obj.tag = "node"
            THEN IF obj.id \in stack \cup {self}
                 THEN Raise(st, "RecursionError")
                 ELSE LET r == resolve_references(st, obj.id,
                                                  stack \cup {self})
                      IN IF r.err # "none" THEN r
                         ELSE ResolveLoop(r.st, self, items, i + 1, stack,
                                          collected)
            ELSE IF obj.tag = "own"
            THEN Raise(st, "RecursionError")
            ELSE IF obj.tag = "unresolved"
            THEN Raise(st, "TypeError")
            ELSE ResolveLoop(st, self, items, i + 1, stack, collected)

resolve_references(st, self, stack) ==
    ResolveLoop(st, self, DictItems(st, self), 1, stack, <<>>)

\* a Reference object held as the value of a field
RefVal(ref) == Val("reference", ref.target, ref.target_key, ref.key_type)

\* a __setattr__ that assigns a plain value and keeps the recorded binding
setattr_value_keep_binding(st, self, value) ==
    Ok([st EXCEPT !.bAddress[self] = value])

\* __setattr__(self, 'bAddress', value) for a value that is no Reference: the
\* entry of the field in __rune_references, if any, is popped, then
\* BaseModel.__setattr__ stores the value
setattr_value(st, self, value) ==
    Ok([st EXCEPT !.refs[self] = NoRef, !.bAddress[self] = value])

\* KeyType.rune_key_tag
rune_key_tag(t) ==
    CASE t = INTERNAL -> "@key"
      [] t = EXTERNAL -> "@key:external"
      [] t = SCOPED -> "@key:scoped"

\* KeyType.rune_ref_tag
rune_ref_tag(t) ==
    CASE t = INTERNAL -> "@ref"
      [] t = EXTERNAL -> "@ref:external"
      [] t = SCOPED -> "@ref:scoped"

\* model_dump(mode='python') and model_dump(mode='json')
DumpModes == {"python", "json"}

\* what model_dump writes for a dict key that is the KeyType member t: the
\* member itself in python mode, its value in json mode
EnumKey(t, mode) ==
    IF mode = "json"
    THEN t
    ELSE CASE t = INTERNAL -> "KeyType.INTERNAL"
           [] t = EXTERNAL -> "KeyType.EXTERNAL"
           [] t = SCOPED -> "KeyType.SCOPED"

\* serialise_meta: the metadata entries with a truthy value, as a set of
\* <<tag, value>> items
serialise_meta(st, n) ==
    {<<rune_key_tag(t), st.meta[n][t]>> :
        t \in {x \in KeyType : st.meta[n][x] # NoKey}}

\* the items model_dump writes for the data fields of an object
DataItems == {<<"data", NoKey>>}

\* the tags rune_serialize writes into __rune_root_metadata
RootTags == {"@type", "@model", "@version"}

\* self.__dict__.get(ROOT_CONTAINER, {}), as items
RootItems(st, n) ==
    IF st.root_container[n] THEN {<<t, NoKey>> : t \in RootTags} ELSE {}

\* ComplexTypeMetaDataMixin.serialise(obj) for the object a field holds; a
\* field that holds None is written as no item at all.  The dump of the
\* object goes through the object's own _resolve_refs.
serialise(st, val) ==
    IF val.tag = "node"
    THEN serialise_meta(st, val.id) \cup RootItems(st, val.id) \cup DataItems
    ELSE IF val.tag = "own" THEN DataItems
    ELSE {}

NoOut == [owner |-> None, b |-> {}, bAddress |-> {}, root |-> {}]

\* _resolve_refs: the fields as the wrapped serializer writes them, then
\* res[property_nm] = {ref_type: key} for every entry of __rune_references,
\* then the entries of __rune_root_metadata, if the object has one
_resolve_refs(st, self, mode) ==
    [owner |-> self,
     b |-> serialise(st, OwnedField(st, self, "b")),
     bAddress |-> IF self \notin ScopeNodes
                  THEN {}
                  ELSE IF st.refs[self] # NoRef
                  THEN {<<EnumKey(st.refs[self][2], mode), st.refs[self][1]>>}
                  ELSE serialise(st, st.bAddress[self]),
     root |-> RootItems(st, self)]

\* ------------------------------------------------------------------------
\* Actions
\* ------------------------------------------------------------------------

Commit(r) ==
    /\ parent' = r.st.parent
    /\ maps' = r.st.maps
    /\ meta' = r.st.meta
    /\ bAddress' = r.st.bAddress
    /\ refs' = r.st.refs
    /\ err' = r.err

RECURSIVE RootOf(_, _)
RootOf(par, n) == IF par[n] = None THEN n ELSE RootOf(par, par[n])

\* when the constructor of p attaches c: c is held by a field of p, has no
\* parent yet, and p is not inside c's own subtree
CanAttach(c, p) ==
    /\ CanHold(p, c)
    /\ parent[c] = None
    /\ RootOf(parent, p) # c

\* the iteration orders of the dict c's standalone maps are popped into
PoppedOrders(st, c) ==
    KindOrders({t \in KeyType : MapKeys(st.maps[c][t]) # {}})

\* c is attached under p
Attach(c, p) ==
    /\ CanAttach(c, p)
    /\ \E order \in PoppedOrders(State, c) :
            Commit(set_rune_parent(State, c, p, order))
    /\ op' = <<"set_rune_parent", c>>
    /\ UNCHANGED <<bList, doc, pc, out, meta_check_disabled, frames,
                   store,
                   root_container,
                   field,
                   threads,
                   _CONDITIONS_REGISTRY,
                   instances,
                   validation>>

\* n is a parentless object that carries no key yet
FreshlyBuilt(n) ==
    /\ parent[n] = None
    /\ \A t \in KeyType : meta[n][t] = NoKey

\* a field validator builds n from a document node that carries key tags
Deserialize(n) ==
    /\ FreshlyBuilt(n)
    /\ \E metadata \in KeyMetadata \ {NoMetadata} :
            Commit(deserialize(State, n, metadata))
    /\ op' = <<"deserialize", n>>
    /\ UNCHANGED <<bList, doc, pc, out, meta_check_disabled, frames,
                   store,
                   root_container,
                   field,
                   threads,
                   _CONDITIONS_REGISTRY,
                   instances,
                   validation>>

GetOrCreateKey(n) ==
    /\ meta[n][INTERNAL] = NoKey => CanMint(State)
    /\ LET r == get_or_create_key(State, n)
       IN Commit([st |-> r.st, err |-> r.err])
    /\ op' = <<"get_or_create_key", n>>
    /\ UNCHANGED <<bList, doc, pc, out, meta_check_disabled, frames,
                   store,
                   root_container,
                   field,
                   threads,
                   _CONDITIONS_REGISTRY,
                   instances,
                   validation>>

SetExternalKey(n) ==
    /\ \E key \in DocKeys, key_type \in KeyType :
            Commit(set_external_key(State, n, key, key_type))
    /\ op' = <<"set_external_key", n>>
    /\ UNCHANGED <<bList, doc, pc, out, meta_check_disabled, frames,
                   store,
                   root_container,
                   field,
                   threads,
                   _CONDITIONS_REGISTRY,
                   instances,
                   validation>>

\* n.set_external_key(key, KeyType.EXTERNAL) with either of two key strings
SetExternalKeyExternal(n) ==
    /\ \E key \in DocKeys \cup OtherKeys :
            Commit(set_external_key(State, n, key, EXTERNAL))
    /\ op' = <<"set_external_key", n>>
    /\ UNCHANGED <<bList, doc, pc, out, meta_check_disabled, frames,
                   store,
                   root_container,
                   field,
                   threads,
                   _CONDITIONS_REGISTRY,
                   instances,
                   validation>>

\* the arguments of the Reference(...) expressions: b with and without an
\* external key, an object of another type than B, and key strings
ReferenceArgs ==
    {[target |-> ObjTarget("b"), ext_key |-> k, key_type |-> t] :
        k \in DocKeys, t \in {None, EXTERNAL, SCOPED}}
    \cup {[target |-> ObjTarget("b"), ext_key |-> NoKey, key_type |-> t] :
        t \in KeyType \cup {None}}
    \cup {[target |-> ObjTarget("root2"), ext_key |-> k, key_type |-> SCOPED] :
        k \in DocKeys}
    \cup {[target |-> StrTarget(k), ext_key |-> e, key_type |-> t] :
        k \in DocKeys, e \in DocKeys \cup {NoKey}, t \in KeyType \cup {None}}

\* the objects whose attribute bAddress the model assigns to
Owners == ScopeNodes

\* the statement  o.<name> = Reference(...):  the Reference is built first,
\* then __setattr__ hands it to bind_property_to
SetAttrReference(o, name) ==
    /\ \E a \in ReferenceArgs :
          /\ (a.target.isobj /\ a.ext_key = NoKey) => CanMint(State)
          /\ LET r == Reference(State, a.target, a.ext_key, a.key_type, o)
             IN IF r.err # "none"
                THEN Commit([st |-> r.st, err |-> r.err])
                ELSE Commit(bind_property_to(r.st, o, name, r.ref))
    /\ op' = <<"setattr_reference", o>>
    /\ UNCHANGED <<bList, doc, pc, out, meta_check_disabled, frames,
                   store,
                   root_container,
                   field,
                   threads,
                   _CONDITIONS_REGISTRY,
                   instances,
                   validation>>

\* the statement  o.b = Reference(...):  b is a field for which
\* _KEY_REF_CONSTRAINTS declares nothing
SetAttrReferenceUndeclared(o) ==
    /\ \E a \in ReferenceArgs :
          /\ (a.target.isobj /\ a.ext_key = NoKey) => CanMint(State)
          /\ LET r == Reference(State, a.target, a.ext_key, a.key_type, o)
             IN IF r.err # "none"
                THEN Commit([st |-> r.st, err |-> r.err])
                ELSE Commit(bind_property_to(r.st, o, "b", r.ref))
    /\ op' = <<"setattr_reference_b", o>>
    /\ UNCHANGED <<bList, doc, pc, out, meta_check_disabled, frames,
                   store,
                   root_container,
                   field,
                   threads,
                   _CONDITIONS_REGISTRY,
                   instances,
                   validation>>

\* the plain values assigned to bAddress: None, a new B, the B the model
\* holds as b
AssignedValues == {NoneVal, OwnVal, NodeVal("b")}

\* the statement  o.bAddress = value  for a value that is no Reference; op
\* tells whether the field was recorded as a reference
SetAttrValue(o) ==
    /\ \E value \in AssignedValues : Commit(setattr_value(State, o, value))
    /\ op' = <<IF refs[o] # NoRef THEN "setattr_value_on_reference"
               ELSE "setattr_value", o>>
    /\ UNCHANGED <<bList, doc, pc, out, meta_check_disabled, frames,
                   store,
                   root_container,
                   field,
                   threads,
                   _CONDITIONS_REGISTRY,
                   instances,
                   validation>>

\* o has just come out of __new__: nothing is stored on it
Unconstructed(o) ==
    /\ FreshlyBuilt(o)
    /\ bAddress[o] = NoneVal
    /\ refs[o] = NoRef
    /\ \A t \in KeyType : MapKeys(maps[o][t]) = {}
    /\ \A c \in Nodes : parent[c] # o

\* the expression  Root(bAddress=Reference(...)):  the Reference is built,
\* the validator of bAddress (deserialize) returns it as it is and the
\* constructor stores what the validator returned
ConstructWithReference(o) ==
    /\ Unconstructed(o)
    /\ \E a \in {x \in ReferenceArgs : x.target.isobj} :
          /\ a.ext_key = NoKey => CanMint(State)
          /\ LET r == Reference(State, a.target, a.ext_key, a.key_type, o)
             IN IF r.err # "none"
                THEN Commit([st |-> r.st, err |-> r.err])
                ELSE Commit(Ok([r.st EXCEPT !.bAddress[o] = RefVal(r.ref)]))
    /\ op' = <<"construct", o>>
    /\ UNCHANGED <<bList, doc, pc, out, meta_check_disabled, frames,
                   store,
                   root_container,
                   field,
                   threads,
                   _CONDITIONS_REGISTRY,
                   instances,
                   validation>>

\* o.model_dump(mode=mode)
ModelDump(o) ==
    /\ bAddress[o].tag \in {"None", "own", "node"}
    /\ \E mode \in DumpModes : out' = _resolve_refs(State, o, mode)
    /\ err' = "none"
    /\ op' = <<"model_dump", o>>
    /\ UNCHANGED <<parent, maps, meta, bAddress, refs, bList, doc, pc,
                   meta_check_disabled, frames,
                   store,
                   root_container,
                   field,
                   threads,
                   _CONDITIONS_REGISTRY,
                   instances,
                   validation>>

\* ------------------------------------------------------------------------
\* The switch of the metadata checks and validate_model
\* ------------------------------------------------------------------------

\* deepest nesting of validate_model calls
MaxDepth == 2

\* a finally clause that puts back the value the switch had at entry
enable_meta_checks_restore ==
    IF frames = <<>> THEN FALSE ELSE frames[Len(frames)].before

\* enable_meta_checks / disable_meta_checks: the value they store in
\* __meta_check_disabled
enable_meta_checks == FALSE
disable_meta_checks == TRUE

\* meta_checks_enabled()
meta_checks_enabled == ~meta_check_disabled

\* the call of validate_model that is running
Top == frames[Len(frames)]

Pop == SubSeq(frames, 1, Len(frames) - 1)

\* user code switches the checks off or on
DisableMetaChecks ==
    /\ frames = <<>>
    /\ meta_check_disabled' = disable_meta_checks
    /\ err' = "none"
    /\ op' = <<"disable_meta_checks", None>>
    /\ UNCHANGED <<parent, maps, meta, bAddress, refs, bList, doc, pc, out,
                   frames,
                   store,
                   root_container,
                   field,
                   threads,
                   _CONDITIONS_REGISTRY,
                   instances,
                   validation>>

EnableMetaChecks ==
    /\ frames = <<>>
    /\ meta_check_disabled' = enable_meta_checks
    /\ err' = "none"
    /\ op' = <<"enable_meta_checks", None>>
    /\ UNCHANGED <<parent, maps, meta, bAddress, refs, bList, doc, pc, out,
                   frames,
                   store,
                   root_container,
                   field,
                   threads,
                   _CONDITIONS_REGISTRY,
                   instances,
                   validation>>

\* validate_model is entered on n, by user code or by a condition of the
\* call that is running: the first statement of the try block switches the
\* checks off.  before remembers the switch as the call found it.
ValidateModelEnter(n) ==
    /\ Len(frames) < MaxDepth
    /\ frames # <<>> => Top.step = "conditions"
    /\ frames' = Append(frames, [obj |-> n, step |-> "attribs",
                                 before |-> meta_check_disabled])
    /\ meta_check_disabled' = disable_meta_checks
    /\ err' = "none"
    /\ op' = <<"validate_model", n>>
    /\ UNCHANGED <<parent, maps, meta, bAddress, refs, bList, doc, pc, out,
                   store,
                   root_container,
                   field,
                   threads,
                   _CONDITIONS_REGISTRY,
                   instances,
                   validation>>

\* validate_attribs of the running call returns, or raises ValidationError,
\* which leaves validate_model through the finally clause
ValidateAttribs ==
    /\ frames # <<>>
    /\ Top.step = "attribs"
    /\ \/ /\ frames' = [frames EXCEPT ![Len(frames)].step = "conditions"]
          /\ err' = "none"
          /\ op' = <<"validate_attribs", Top.obj>>
          /\ UNCHANGED meta_check_disabled
       \/ /\ frames' = Pop
          /\ meta_check_disabled' = enable_meta_checks
          /\ err' = "ValidationError"
          /\ op' = <<"validate_model_raise", Top.obj>>
    /\ UNCHANGED <<parent, maps, meta, bAddress, refs, bList, doc, pc, out,
                   store,
                   root_container,
                   field,
                   threads,
                   _CONDITIONS_REGISTRY,
                   instances,
                   validation>>

\* validate_conditions of the running call returns or raises
\* ConditionViolationError; either way validate_model is left through the
\* finally clause
ValidateConditions ==
    /\ frames # <<>>
    /\ Top.step = "conditions"
    /\ frames' = Pop
    /\ meta_check_disabled' = enable_meta_checks
    /\ \/ /\ err' = "none"
          /\ op' = <<"validate_model_return", Top.obj>>
       \/ /\ err' = "ConditionViolationError"
          /\ op' = <<"validate_model_raise", Top.obj>>
    /\ UNCHANGED <<parent, maps, meta, bAddress, refs, bList, doc, pc, out,
                   store,
                   root_container,
                   field,
                   threads,
                   _CONDITIONS_REGISTRY,
                   instances,
                   validation>>

\* ------------------------------------------------------------------------
\* validate_model on two threads
\* ------------------------------------------------------------------------

Threads == {"T1", "T2"}

\* the objects each thread validates: trees of its own
ThreadTrees(t) == IF t = "T1" THEN {"deep", "root"} ELSE {"root2", "b"}

\* a thread outside validate_model; result is how its last call ended
Idle(e) == [obj |-> None, step |-> "idle", result |-> e]

NotValidating == Idle("none")

Validating(t) == threads[t].step # "idle"

\* thread t enters validate_model on the root of its tree: the first
\* statement of the try block switches the checks off
ThreadValidateModelEnter(t) ==
    /\ ~Validating(t)
    /\ \E n \in ThreadTrees(t) :
        threads' = [threads EXCEPT
                      ![t] = [obj |-> n, step |-> "attribs",
                              result |-> "none"]]
    /\ meta_check_disabled' = disable_meta_checks
    /\ err' = "none"
    /\ op' = <<"validate_model", t>>
    /\ UNCHANGED <<parent, maps, meta, bAddress, refs, bList, doc, pc, out,
                   frames, store, root_container, field,
                   _CONDITIONS_REGISTRY,
                   instances,
                   validation>>

\* validate_attribs of the call of thread t returns, or raises and leaves
\* validate_model through the finally clause
ThreadValidateAttribs(t) ==
    /\ threads[t].step = "attribs"
    /\ \/ /\ threads' = [threads EXCEPT ![t].step = "conditions"]
          /\ err' = "none"
          /\ op' = <<"validate_attribs", t>>
          /\ UNCHANGED meta_check_disabled
       \/ /\ threads' = [threads EXCEPT ![t] = Idle("ValidationError")]
          /\ meta_check_disabled' = enable_meta_checks
          /\ err' = "ValidationError"
          /\ op' = <<"validate_model_raise", t>>
    /\ UNCHANGED <<parent, maps, meta, bAddress, refs, bList, doc, pc, out,
                   frames, store, root_container, field,
                   _CONDITIONS_REGISTRY,
                   instances,
                   validation>>

\* validate_conditions of the call of thread t returns or raises, and
\* validate_model is left through the finally clause
ThreadValidateConditions(t) ==
    /\ threads[t].step = "conditions"
    /\ meta_check_disabled' = enable_meta_checks
    /\ \/ /\ err' = "none"
          /\ op' = <<"validate_model_return", t>>
       \/ /\ err' = "ConditionViolationError"
          /\ op' = <<"validate_model_raise", t>>
    /\ threads' = [threads EXCEPT ![t] = Idle(err')]
    /\ UNCHANGED <<parent, maps, meta, bAddress, refs, bList, doc, pc, out,
                   frames, store, root_container, field,
                   _CONDITIONS_REGISTRY,
                   instances,
                   validation>>

\* ------------------------------------------------------------------------
\* The metadata container of one value (init_meta, set_meta)
\* ------------------------------------------------------------------------

\* the tags of a metadata container
MetaTags == {"@key", "@key:external", "@scheme"}

\* the keyword names set_meta is called with
PyNames == {"key", "key_external", "scheme"}

\* _py_to_ser_key: '@' + key.replace('_', ':'), a name that starts with '@'
\* is kept
_py_to_ser_key(k) ==
    IF k \in MetaTags THEN k
    ELSE CASE k = "key" -> "@key"
           [] k = "key_external" -> "@key:external"
           [] k = "scheme" -> "@scheme"

\* the values a tag is given; NoKey is None
MetaValues == {1, 2}

\* the container has no slot for the tag
NoSlot == -1

\* a value without metadata container, which reads as an empty one
NoStore == [t \in MetaTags |-> NoSlot]

\* set(meta.keys())
Slots(s) == {t \in MetaTags : s[t] # NoSlot}

\* the tags that carry a value
Carried(s) == {t \in MetaTags : s[t] \in MetaValues}

\* the keyword arguments of a set_meta call: distinct tags, a value or None
Kwds == UNION {[S -> MetaValues \cup {NoKey}] : S \in SUBSET PyNames}

\* props = {_py_to_ser_key(k): v for k, v in kwds.items()}
Props(kwds) ==
    [t \in {_py_to_ser_key(k) : k \in DOMAIN kwds} |->
        kwds[CHOOSE k \in DOMAIN kwds : _py_to_ser_key(k) = t]]

\* _check_props_allowed on a container: TRUE when it does not raise
PropsAllowed(s, props) ==
    DOMAIN props = {} \/ DOMAIN props \subseteq Slots(s)

\* an init_meta that makes the container equal to the allow-list
init_meta_reset(s, allowed) ==
    Ok([t \in MetaTags |-> IF t \in allowed THEN NoKey ELSE NoSlot])

\* init_meta(allowed_meta)
init_meta(s, allowed) ==
    IF ~(Slots(s) \subseteq allowed)
    THEN Raise(s, "AllowedMetaDiffers")
    ELSE Ok([t \in MetaTags |->
                IF t \in allowed \ Slots(s) THEN NoKey ELSE s[t]])

\* a set_meta that merges the allowed tags before it raises
set_meta_partial(s, check_allowed, kwds) ==
    LET props == Props(kwds)
        merged == [t \in MetaTags |->
                    IF t \in DOMAIN props \cap Slots(s) THEN props[t]
                    ELSE s[t]]
    IN IF check_allowed /\ ~PropsAllowed(s, props)
       THEN Raise(merged, "NotAllowedMetadata")
       ELSE Ok([t \in MetaTags |->
                    IF t \in DOMAIN props THEN props[t] ELSE s[t]])

\* set_meta(check_allowed, **kwds)
set_meta(s, check_allowed, kwds) ==
    LET props == Props(kwds)
    IN IF check_allowed /\ ~PropsAllowed(s, props)
       THEN Raise(s, "NotAllowedMetadata")
       ELSE Ok([t \in MetaTags |->
                    IF t \in DOMAIN props THEN props[t] ELSE s[t]])

\* the allow-list in the validator of the field that holds the value
FieldAllowed == {"@key", "@scheme"}

\* the '@' entries a document node of the field can carry
DocMetadata == UNION {[S -> MetaValues] : S \in SUBSET MetaTags}

\* ComplexTypeMetaDataMixin.deserialize of a document node with the '@'
\* entries metadata: the model gets metadata as its container, and
\* init_meta runs when the checks are switched on; s is what the field held
deserialize_meta(s, metadata, allowed, enabled) ==
    LET container == [t \in MetaTags |->
                        IF t \in DOMAIN metadata THEN metadata[t]
                        ELSE NoSlot]
    IN IF ~enabled THEN Ok(container)
       ELSE IF init_meta(container, allowed).err # "none"
       THEN Raise(s, init_meta(container, allowed).err)
       ELSE init_meta(container, allowed)

\* code that the caller runs: outside validate_model, or in a condition
UserCode == frames # <<>> => Top.step = "conditions"

\* the validator of the field initialises the container of the value
InitMeta ==
    /\ UserCode
    /\ LET r == init_meta(store, FieldAllowed)
       IN store' = r.st /\ err' = r.err
    /\ op' = <<"init_meta", None>>
    /\ UNCHANGED <<parent, maps, meta, bAddress, refs, bList, doc, pc, out,
                   meta_check_disabled, frames,
                   root_container,
                   field,
                   threads,
                   _CONDITIONS_REGISTRY,
                   instances,
                   validation>>

\* set_meta(**kwds) on the value, check_allowed left at its default
SetMeta ==
    /\ UserCode
    /\ \E kwds \in Kwds :
            LET r == set_meta(store, TRUE, kwds)
            IN store' = r.st /\ err' = r.err
    /\ op' = <<"set_meta", None>>
    /\ UNCHANGED <<parent, maps, meta, bAddress, refs, bList, doc, pc, out,
                   meta_check_disabled, frames,
                   root_container,
                   field,
                   threads,
                   _CONDITIONS_REGISTRY,
                   instances,
                   validation>>

\* a document node is deserialized into the field
FieldDeserialize ==
    /\ UserCode
    /\ \E metadata \in DocMetadata :
            LET r == deserialize_meta(store, metadata, FieldAllowed,
                                      meta_checks_enabled)
            IN store' = r.st /\ err' = r.err
    /\ op' = <<"deserialize", None>>
    /\ UNCHANGED <<parent, maps, meta, bAddress, refs, bList, doc, pc, out,
                   meta_check_disabled, frames,
                   root_container,
                   field,
                   threads,
                   _CONDITIONS_REGISTRY,
                   instances,
                   validation>>

\* ------------------------------------------------------------------------
\* Reference envelopes with several reference tags
\* ------------------------------------------------------------------------

\* the reference tags of an envelope: the key under each tag, NoKey for a
\* tag the envelope does not carry
RefMetadata == [KeyType -> DocKeys \cup OtherKeys \cup {NoKey}]

\* ref.pop(tag, None) when len(ref) != 1
PopUnlessOne(ref, t) == IF Cardinality(ref) # 1 THEN ref \ {t} ELSE ref

\* _create_unresolved_ref: the '@ref' entries of the metadata, of which
\* '@ref' and then '@ref:external' are dropped while more than one is
\* left; UnresolvedReference takes the entry that is left
_create_unresolved_ref_tags(metadata) ==
    LET ref == {t \in KeyType : metadata[t] # NoKey}
        kept == PopUnlessOne(PopUnlessOne(ref, INTERNAL), EXTERNAL)
    IN IF ref = {} THEN [val |-> NoneVal, err |-> "none"]
       ELSE IF Cardinality(kept) # 1
       THEN [val |-> NoneVal, err |-> "MultipleReferences"]
       ELSE LET t == CHOOSE x \in kept : TRUE
            IN [val |-> UnresolvedReference(metadata[t], t), err |-> "none"]

\* the validator of bAddress reads a reference envelope for the Root o;
\* op[3] is the envelope
EnvelopeDeserialize(o) ==
    /\ refs[o] = NoRef
    /\ \E metadata \in RefMetadata \ {NoMetadata} :
        LET r == _create_unresolved_ref_tags(metadata)
        IN /\ bAddress' = IF r.err = "none"
                          THEN [bAddress EXCEPT ![o] = r.val]
                          ELSE bAddress
           /\ err' = r.err
           /\ op' = <<"deserialize_reference", o, metadata>>
    /\ UNCHANGED <<parent, maps, meta, refs,
                   threads,
                   _CONDITIONS_REGISTRY,
                   instances,
                   validation>>
    /\ UNCHANGED <<bList, doc, pc, out, meta_check_disabled, frames, store,
                   root_container, field,
                   threads,
                   _CONDITIONS_REGISTRY,
                   instances,
                   validation>>

\* o.resolve_references()
ResolveReferencesOf(o) ==
    /\ Commit(resolve_references(State, o, {}))
    /\ op' = <<"resolve_references", o>>
    /\ UNCHANGED <<bList, doc, pc, out, meta_check_disabled, frames, store,
                   root_container, field,
                   threads,
                   _CONDITIONS_REGISTRY,
                   instances,
                   validation>>

\* ------------------------------------------------------------------------
\* The type tag of a nested node (_type_to_cls, serialise)
\* ------------------------------------------------------------------------

\* generated classes: B extends A, C extends B, X extends neither
Classes == {"A", "B", "C", "X"}

\* the base class of a generated class; None stands for BaseDataClass
Base(c) ==
    CASE c = "B" -> "A"
      [] c = "C" -> "B"
      [] OTHER -> None

\* issubclass(c, d)
RECURSIVE issubclass(_, _)
issubclass(c, d) ==
    IF c = d THEN TRUE
    ELSE IF Base(c) = None THEN FALSE
    ELSE issubclass(Base(c), d)

\* c.__module__, as its dotted path: the generator writes every class into
\* a module of the class's name
__module__(c) == <<"serialization", "extension", c>>

\* a path that no module has
MissingModule == <<"serialization", "extension", "Missing">>

NoTag == <<>>

\* the values of '@type' in the documents
TypeTags == {__module__(c) : c \in Classes} \cup {MissingModule, NoTag}

\* importlib.import_module(path) finds a module
Importable(path) == \E c \in Classes : __module__(c) = path

\* the names the module at path defines
ModuleNames(path) == {c \in Classes : __module__(c) = path}

\* a _type_to_cls that reads no tag
_type_to_cls_legacy(cls, rune_type) == [cls |-> cls, err |-> "none"]

\* _type_to_cls: the class named by the last segment of the tag, looked up
\* in the module the whole tag names; cls when there is no tag
_type_to_cls(cls, rune_type) ==
    IF rune_type = NoTag THEN [cls |-> cls, err |-> "none"]
    ELSE LET rune_class_name == rune_type[Len(rune_type)]
         IN IF ~Importable(rune_type)
            THEN [cls |-> None, err |-> "ModuleNotFoundError"]
            ELSE IF rune_class_name \notin ModuleNames(rune_type)
            THEN [cls |-> None, err |-> "AttributeError"]
            ELSE [cls |-> rune_class_name, err |-> "none"]

\* a node of a document as the validator of a field sees it: its '@type',
\* whether it carries a reference tag, whether its fields fit the class
TypedNodes == [type : TypeTags, ref : BOOLEAN, valid : BOOLEAN]

NoNode == [type |-> NoTag, ref |-> FALSE, valid |-> FALSE]

\* deserialize(cls, node): the class of the object built, "unresolved" for
\* an UnresolvedReference, None when it raises
deserialize_typed(cls, node) ==
    IF node.ref THEN [value |-> "unresolved", err |-> "none"]
    ELSE LET r == _type_to_cls(cls, node.type)
         IN IF r.err # "none" THEN [value |-> None, err |-> r.err]
            ELSE IF r.cls # cls /\ ~issubclass(r.cls, cls)
            THEN [value |-> None, err |-> "HasToBeAChildClass"]
            ELSE IF ~node.valid
            THEN [value |-> None, err |-> "ValidationError"]
            ELSE [value |-> r.cls, err |-> "none"]

\* a serialise that tags every node
serialise_type_always(cls, obj_class) == __module__(obj_class)

\* serialise(cls, obj): the '@type' it puts in front of the dump, if any
serialise_type(cls, obj_class) ==
    IF cls # obj_class THEN __module__(obj_class) ELSE NoTag

NoWritten == <<"nothing written">>

\* a field declared with the class cls that holds nothing yet
NoField(cls) ==
    [declared |-> cls, node |-> NoNode, value |-> None, written |-> NoWritten]

\* the validator of the field reads a node
TypedDeserialize ==
    /\ \E node \in TypedNodes :
        LET r == deserialize_typed(field.declared, node)
        IN /\ field' = [field EXCEPT !.node = node, !.value = r.value,
                                     !.written = NoWritten]
           /\ err' = r.err
    /\ op' = <<"deserialize", "field">>
    /\ UNCHANGED <<parent, maps, meta, bAddress, refs, bList, doc, pc, out,
                   meta_check_disabled, frames, store, root_container,
                   threads,
                   _CONDITIONS_REGISTRY,
                   instances,
                   validation>>

\* the owner is constructed with an object of the declared class or of a
\* subclass in the field
TypedConstruct ==
    /\ \E c \in Classes :
        /\ issubclass(c, field.declared)
        /\ field' = [field EXCEPT !.node = NoNode, !.value = c,
                                  !.written = NoWritten]
    /\ err' = "none"
    /\ op' = <<"construct", "field">>
    /\ UNCHANGED <<parent, maps, meta, bAddress, refs, bList, doc, pc, out,
                   meta_check_disabled, frames, store, root_container,
                   threads,
                   _CONDITIONS_REGISTRY,
                   instances,
                   validation>>

\* the serializer of the field writes the object the field holds
TypedSerialise ==
    /\ field.value \in Classes
    /\ field' = [field EXCEPT
                    !.written = serialise_type(field.declared, field.value)]
    /\ err' = "none"
    /\ op' = <<"serialise", "field">>
    /\ UNCHANGED <<parent, maps, meta, bAddress, refs, bList, doc, pc, out,
                   meta_check_disabled, frames, store, root_container,
                   threads,
                   _CONDITIONS_REGISTRY,
                   instances,
                   validation>>

\* ------------------------------------------------------------------------
\* Deserialization of a document (rune_deserialize)
\* ------------------------------------------------------------------------

\* longest bList a document has
MaxList == 1

\* a reference envelope {kind: key}
RefTags == DocKeys \X KeyType

RECURSIVE SeqsUpTo(_, _)
SeqsUpTo(S, n) ==
    IF n = 0 THEN {<<>>}
    ELSE SeqsUpTo(S, n - 1) \cup [1..n -> S]

\* the documents: deep { root { b {key tags}, bAddress {ref} }, bList [refs] }
Docs ==
    {[hasRoot |-> hr, hasB |-> hb, bKeys |-> bk, bAddress |-> ba,
      bList |-> bl] :
        hr \in BOOLEAN, hb \in BOOLEAN, bk \in KeyMetadata,
        ba \in RefTags \cup {NoRef}, bl \in SeqsUpTo(RefTags, MaxList)}

\* documents in which what an absent node would hold is left out
WellFormedDoc(d) ==
    /\ d.hasB => d.hasRoot
    /\ ~d.hasB => d.bKeys = NoMetadata
    /\ ~d.hasRoot => d.bAddress = NoRef

NoDoc == [hasRoot |-> FALSE, hasB |-> FALSE, bKeys |-> NoMetadata,
          bAddress |-> NoRef, bList |-> <<>>]

\* the innermost node of the document is built first
FirstStage(d) ==
    IF d.hasB THEN "b" ELSE IF d.hasRoot THEN "root" ELSE "deep"

\* _create_unresolved_ref for an envelope with at most one reference tag
_create_unresolved_ref(ref) ==
    IF ref = NoRef THEN NoneVal ELSE UnresolvedReference(ref[1], ref[2])

\* the validator of the field b of root builds b
BuildB ==
    /\ pc = "b"
    /\ LET r == deserialize(State, "b", doc.bKeys)
       IN /\ Commit(r)
          /\ pc' = IF r.err = "none" THEN "root" ELSE "failed"
    /\ op' = <<"deserialize", "b">>
    /\ UNCHANGED <<bList, doc, out, meta_check_disabled, frames,
                   store,
                   root_container,
                   field,
                   threads,
                   _CONDITIONS_REGISTRY,
                   instances,
                   validation>>

\* the validator of the field root of deep builds root: bAddress becomes a
\* placeholder, b is attached, and root's metadata is set
BuildRoot ==
    /\ pc = "root"
    /\ LET st1 == [State EXCEPT
                     !.bAddress["root"] = _create_unresolved_ref(doc.bAddress)]
       IN \E order \in PoppedOrders(st1, "b") :
            LET r1 == IF doc.hasB
                      THEN set_rune_parent(st1, "b", "root", order)
                      ELSE Ok(st1)
                r2 == IF r1.err # "none" THEN r1
                      ELSE deserialize(r1.st, "root", NoMetadata)
            IN /\ Commit(r2)
               /\ pc' = IF r2.err = "none" THEN "deep" ELSE "failed"
    /\ op' = <<"deserialize", "root">>
    /\ UNCHANGED <<bList, doc, out, meta_check_disabled, frames,
                   store,
                   root_container,
                   field,
                   threads,
                   _CONDITIONS_REGISTRY,
                   instances,
                   validation>>

\* model_validate of the document root builds deep: the elements of bList
\* become placeholders and root is attached
BuildDeep ==
    /\ pc = "deep"
    /\ bList' = [i \in 1..Len(doc.bList) |->
                    _create_unresolved_ref(doc.bList[i])]
    /\ \E order \in PoppedOrders(State, "root") :
            LET r == IF doc.hasRoot
                     THEN set_rune_parent(State, "root", "deep", order)
                     ELSE Ok(State)
            IN /\ Commit(r)
               /\ pc' = IF r.err = "none" THEN "resolve" ELSE "failed"
    /\ op' = <<"model_validate", "deep">>
    /\ UNCHANGED <<doc, out, meta_check_disabled, frames,
                   store,
                   root_container,
                   field,
                   threads,
                   _CONDITIONS_REGISTRY,
                   instances,
                   validation>>

\* a rune_deserialize that returns the model as soon as the references are
\* resolved
AfterResolve_return == "done"

\* the statement of rune_deserialize that follows model.resolve_references()
AfterResolve == "validate"

\* model.resolve_references()
ResolveReferences ==
    /\ pc = "resolve"
    /\ LET r == resolve_references(State, "deep", {})
       IN /\ Commit(r)
          /\ pc' = IF r.err = "none" THEN AfterResolve ELSE "failed"
    /\ op' = <<"resolve_references", "deep">>
    /\ UNCHANGED <<bList, doc, out, meta_check_disabled, frames,
                   store,
                   root_container,
                   field,
                   threads,
                   _CONDITIONS_REGISTRY,
                   instances,
                   validation>>

\* validate_attribs(self): model_validate runs the validator of every field
\* on the value the field holds, and of a list field on every element.
\* deserialize returns an object of the class and a Reference as they are;
\* of an UnresolvedReference it reads obj.keys(), which raises
\* AttributeError.
validate_attribs(st, self, lst) ==
    LET items == DictItems(st, self)
    IN IF \/ \E i \in DOMAIN items : items[i].tag = "unresolved"
          \/ /\ \E i \in DOMAIN items : items[i].tag = "list"
             /\ \E j \in DOMAIN lst : lst[j].tag = "unresolved"
       THEN "AttributeError"
       ELSE "none"

\* validate_conditions(self, recursively=True) for classes without
\* conditions: the walk over __dict__ enters every object it finds, and an
\* object that has a parent, or is one, leads the walk back to where it came
\* from
validate_conditions(st, self) ==
    LET items == DictItems(st, self)
    IN IF \E i \in DOMAIN items :
            /\ items[i].tag = "node"
            /\ st.parent[items[i].id] # None \/ st.parent[self] = items[i].id
       THEN "RecursionError"
       ELSE "none"

\* validate_model(self): the error that leaves it, or "none"
validate_model(st, self, lst) ==
    IF validate_attribs(st, self, lst) # "none"
    THEN validate_attribs(st, self, lst)
    ELSE validate_conditions(st, self)

\* model.validate_model(), as one step: the checks are switched off at entry
\* and on in the finally clause
ValidateModel ==
    /\ pc = "validate"
    /\ LET e == validate_model(State, "deep", bList)
       IN /\ err' = e
          /\ pc' = IF e = "none" THEN "done" ELSE "failed"
    /\ meta_check_disabled' = enable_meta_checks
    /\ op' = <<"validate_model", "deep">>
    /\ UNCHANGED <<parent, maps, meta, bAddress, refs, bList, doc, out,
                   frames,
                   store,
                   root_container,
                   field,
                   threads,
                   _CONDITIONS_REGISTRY,
                   instances,
                   validation>>

\* ------------------------------------------------------------------------
\* deserialize of a document node with key tags, reference tags and data
\* ------------------------------------------------------------------------

\* the document nodes the validator of a field is given: key tags,
\* reference tags, and the data of an object or none
DocNodes == [keys : KeyMetadata, refs : KeyMetadata, data : BOOLEAN]

\* a deserialize that creates the model and registers its keys before it
\* looks for reference tags
deserialize_model_first(st, self, node) ==
    LET aux == _create_unresolved_ref_tags(node.refs)
        r == deserialize(st, self, node.keys)
    IN IF r.err # "none" THEN [st |-> r.st, err |-> r.err, val |-> NoneVal]
       ELSE IF aux.err # "none" \/ aux.val # NoneVal
       THEN [st |-> r.st, err |-> aux.err, val |-> aux.val]
       ELSE [st |-> r.st, err |-> "none", val |-> NodeVal(self)]

\* ComplexTypeMetaDataMixin.deserialize(obj, allowed_meta) for a dict: the
\* '@' entries are looked at for references first; only without one the
\* model self is created and its keys registered.  The deserialize of
\* BasicTypeMetaDataMixin has the same order.
deserialize_node(st, self, node) ==
    LET aux == _create_unresolved_ref_tags(node.refs)
    IN IF aux.err # "none" \/ aux.val # NoneVal
       THEN [st |-> st, err |-> aux.err, val |-> aux.val]
       ELSE LET r == deserialize(st, self, node.keys)
            IN [st |-> r.st, err |-> r.err,
                val |-> IF r.err = "none" THEN NodeVal(self) ELSE NoneVal]

\* the validator of the field bAddress of the Root o reads a node of a
\* document; the object the node would be built into is b.  op[3] is the
\* node.
NodeDeserialize(o) ==
    /\ bAddress[o] = NoneVal
    /\ refs[o] = NoRef
    /\ FreshlyBuilt("b")
    /\ \A p \in Owners : bAddress[p].tag # "node"
    /\ \E node \in DocNodes :
        LET r == deserialize_node(State, "b", node)
        IN /\ Commit([st |-> [r.st EXCEPT !.bAddress[o] = r.val],
                      err |-> r.err])
           /\ op' = <<"deserialize_node", o, node>>
    /\ UNCHANGED <<bList, doc, pc, out, meta_check_disabled, frames, store,
                   root_container, field, threads, _CONDITIONS_REGISTRY,
                   instances, validation>>

\* ------------------------------------------------------------------------
\* Conditions (conditions.py) and their validation (base_data_class.py)
\* ------------------------------------------------------------------------

\* the names conditions are declared under
CondNames == {"c1", "c2"}

\* the instances that are validated, and the class of each
Instances == {"v1", "v2", "v3"}

ClassOf(v) ==
    CASE v = "v1" -> "C"
      [] v = "v2" -> "B"
      [] OTHER -> "A"

\* cls.__mro__, as far as BaseDataClass and its own bases
RECURSIVE __mro__(_)
__mro__(cls) ==
    <<cls>> \o (IF Base(cls) = None
                THEN <<"BaseDataClass", "BaseModel", "object">>
                ELSE __mro__(Base(cls)))

\* seq.index(x), counted from 1
index(seq, x) ==
    CHOOSE i \in DOMAIN seq : seq[i] = x /\ \A j \in 1..(i - 1) : seq[j] # x

\* reversed(seq)
reversed(seq) == [i \in DOMAIN seq |-> seq[Len(seq) + 1 - i]]

\* rune_condition(condition): the condition is stored under the path of its
\* class and its own name; a dict keeps the place of a name it already has
rune_condition(registry, path, name) ==
    IF \E i \in DOMAIN registry[path] : registry[path][i] = name
    THEN registry
    ELSE [registry EXCEPT ![path] = Append(@, name)]

\* the list comprehension of get_conditions, for the classes from the i-th
\* of the chain on: the conditions of a class, each named fqcn.name
RECURSIVE ConditionsFrom(_, _, _)
ConditionsFrom(registry, chain, i) ==
    IF i > Len(chain) THEN <<>>
    ELSE [j \in DOMAIN registry[chain[i]] |->
              <<chain[i], registry[chain[i]][j]>>]
         \o ConditionsFrom(registry, chain, i + 1)

\* a get_conditions that walks __mro__ as it is, the class first
get_conditions_derived_first(registry, cls, base_class) ==
    ConditionsFrom(registry,
                   SubSeq(__mro__(cls), 1,
                          index(__mro__(cls), base_class) - 1),
                   1)

\* get_conditions(cls, base_class): the classes of __mro__ before
\* base_class, reversed
get_conditions(registry, cls, base_class) ==
    ConditionsFrom(registry,
                   reversed(SubSeq(__mro__(cls), 1,
                                   index(__mro__(cls), base_class) - 1)),
                   1)

\* the values a field holds: nothing, a scalar, an instance, or instances
\* in a list, a tuple or a set
NoneField == [kind |-> "none", items |-> <<>>]
Scalar == [kind |-> "scalar", items |-> <<>>]
Single(v) == [kind |-> "node", items |-> <<v>>]
Many(kind, v) == [kind |-> kind, items |-> <<v>>]

\* no instance holds another, and the data of all of them are good
NoInstances ==
    [value |-> [v \in Instances |-> NoneField],
     rune_parent |-> [v \in Instances |-> None],
     bad |-> {},
     invalid |-> {}]

\* the trees user code builds: v1 holds v2, and v2 holds v3, nothing, a
\* scalar, or, as an alias, v1 or v2 itself; v1 may hold itself as an alias
\* too.  attached: the instances held know their holder as __rune_parent.
\* bad: the instances whose data the conditions named c1 reject; invalid:
\* the instances whose fields the structural validation rejects.
Trees ==
    {[value |-> [v \in Instances |->
                     CASE v = "v1" -> first
                       [] v = "v2" -> second
                       [] OTHER -> Scalar],
      rune_parent |-> [v \in Instances |->
                     CASE v = "v2" /\ attached /\ first.items = <<"v2">>
                              -> "v1"
                       [] v = "v3" /\ attached /\ second.items = <<"v3">>
                              -> "v2"
                       [] OTHER -> None],
      bad |-> bad,
      invalid |-> invalid] :
        first \in {Single("v2"), Many("list", "v2"), Many("tuple", "v2"),
                   Many("set", "v2"), Single("v1")},
        second \in {Single("v3"), Many("list", "v3"), NoneField, Scalar,
                    Single("v1"), Single("v2")},
        attached \in BOOLEAN,
        bad \in SUBSET Instances,
        invalid \in {{}, {"v2"}}}

\* instances that hold nothing
FlatTrees ==
    {[NoInstances EXCEPT !.bad = bad] : bad \in SUBSET Instances}

\* condition(self), for the condition of the given name: the conditions
\* named c1 test the data of the instance
condition(t, name, self) == ~(name[2] = "c1" /\ self \in t.bad)

\* what a call evaluated, the exceptions it made, and the one it raised
NoViolations == [evaluated |-> <<>>, errors |-> <<>>, raised |-> "none"]

\* the walk never returns: Python ends it with RecursionError
Recursion == [evaluated |-> <<>>, errors |-> <<>>,
              raised |-> "RecursionError"]

\* two statements one after the other: an exception of the first leaves
\* the second unexecuted; the lists of exceptions are added up
Then(r1, r2) ==
    IF r1.raised # "none" THEN r1
    ELSE [evaluated |-> r1.evaluated \o r2.evaluated,
          errors |-> r1.errors \o r2.errors,
          raised |-> r2.raised]

\* ConditionViolationError(msg): msg names the condition and repr(self)
ConditionViolationError(name, self) ==
    [kind |-> "ConditionViolationError", name |-> name, obj |-> self]

\* the loop of validate_conditions over get_conditions, from the i-th on
RECURSIVE CheckLoop(_, _, _, _, _)
CheckLoop(t, self, conds, i, raise_exc) ==
    IF i > Len(conds) THEN NoViolations
    ELSE LET failed == ~condition(t, conds[i], self)
         IN Then([evaluated |-> << <<self, conds[i]>> >>,
                  errors |-> IF failed
                             THEN <<ConditionViolationError(conds[i], self)>>
                             ELSE <<>>,
                  raised |-> IF failed /\ raise_exc
                             THEN "ConditionViolationError"
                             ELSE "none"],
                 CheckLoop(t, self, conds, i + 1, raise_exc))

\* self.__dict__.values(): the field, then __rune_parent if it was set
DictValues(t, self) ==
    <<t.value[self]>> \o (IF t.rune_parent[self] = None
                          THEN <<>>
                          ELSE <<Single(t.rune_parent[self])>>)

\* bool(obj)
Truthy(obj) == obj.kind = "node" \/ obj.kind = "scalar" \/ obj.items # <<>>

RECURSIVE validate_conditions_of(_, _, _, _, _, _)
RECURSIVE _validate_conditions_recursively(_, _, _, _, _)
RECURSIVE ValuesLoop(_, _, _, _, _, _)

\* a loop that calls _validate_conditions_recursively on every value of a
\* sequence, from the i-th on
ValuesLoop(t, registry, values, i, raise_exc, stack) ==
    IF i > Len(values) THEN NoViolations
    ELSE Then(_validate_conditions_recursively(t, registry, values[i],
                                               raise_exc, stack),
              ValuesLoop(t, registry, values, i + 1, raise_exc, stack))

\* _validate_conditions_recursively(obj, raise_exc): stack holds the
\* instances whose validate_conditions has not returned; entering one of
\* them again repeats the calls that led to it
_validate_conditions_recursively(t, registry, obj, raise_exc, stack) ==
    IF ~Truthy(obj) THEN NoViolations
    ELSE IF obj.kind = "node"
    THEN IF \E i \in DOMAIN stack : stack[i] = obj.items[1]
         THEN Recursion
         ELSE validate_conditions_of(t, registry, obj.items[1], TRUE,
                                     raise_exc, stack)
    ELSE IF obj.kind \in {"list", "tuple"}
    THEN ValuesLoop(t, registry,
                    [i \in DOMAIN obj.items |-> Single(obj.items[i])],
                    1, raise_exc, stack)
    ELSE NoViolations

\* validate_conditions(self, recursively, raise_exc)
validate_conditions_of(t, registry, self, recursively, raise_exc, stack) ==
    Then(CheckLoop(t, self,
                   get_conditions(registry, ClassOf(self), "BaseDataClass"),
                   1, raise_exc),
         IF recursively
         THEN ValuesLoop(t, registry, DictValues(t, self), 1, raise_exc,
                         Append(stack, self))
         ELSE NoViolations)

\* the instances model_validate(self) validates: self and what its fields
\* lead to
RECURSIVE Validated(_, _, _)
Validated(t, todo, seen) ==
    IF todo = {} THEN seen
    ELSE LET v == CHOOSE x \in todo : TRUE
             held == {t.value[v].items[i] : i \in DOMAIN t.value[v].items}
         IN Validated(t, (todo \cup held) \ (seen \cup {v}), seen \cup {v})

\* validate_attribs(self, raise_exc): the ValidationError of model_validate
\* is raised or returned in a list
validate_attribs_of(t, self, raise_exc) ==
    IF Validated(t, {self}, {}) \cap t.invalid = {} THEN NoViolations
    ELSE [evaluated |-> <<>>,
          errors |-> <<[kind |-> "ValidationError", name |-> <<None, None>>,
                        obj |-> self]>>,
          raised |-> IF raise_exc THEN "ValidationError" ELSE "none"]

\* a validate_model that checks the conditions before the attributes
validate_model_conditions_first(t, registry, self, recursively, raise_exc) ==
    Then(validate_conditions_of(t, registry, self, recursively, raise_exc,
                                <<>>),
         validate_attribs_of(t, self, raise_exc))

\* validate_model(self, recursively, raise_exc)
validate_model_of(t, registry, self, recursively, raise_exc) ==
    Then(validate_attribs_of(t, self, raise_exc),
         validate_conditions_of(t, registry, self, recursively, raise_exc,
                                <<>>))

\* the classes are defined, and the decorators run, when their modules are
\* imported; instances are built and validated after that
Loading == op[1] \in {"init", "rune_condition"}

\* a class with a condition is defined: the decorator runs
RuneCondition(c, name) ==
    /\ Loading
    /\ _CONDITIONS_REGISTRY' = rune_condition(_CONDITIONS_REGISTRY, c, name)
    /\ err' = "none"
    /\ op' = <<"rune_condition", c>>
    /\ UNCHANGED <<parent, maps, meta, bAddress, refs, bList, doc, pc, out,
                   meta_check_disabled, frames, store, root_container,
                   field, threads, instances, validation>>

\* user code builds the instances
Construct(t) ==
    /\ Loading
    /\ instances' = t
    /\ err' = "none"
    /\ op' = <<"construct", None>>
    /\ UNCHANGED <<parent, maps, meta, bAddress, refs, bList, doc, pc, out,
                   meta_check_disabled, frames, store, root_container,
                   field, threads, _CONDITIONS_REGISTRY, validation>>

\* v.validate_conditions(recursively, raise_exc)
ValidateConditionsOf(v, recursively, raise_exc) ==
    /\ validation' = validate_conditions_of(instances, _CONDITIONS_REGISTRY,
                                            v, recursively, raise_exc, <<>>)
    /\ err' = validation'.raised
    /\ op' = <<"validate_conditions", v, recursively, raise_exc>>
    /\ UNCHANGED <<parent, maps, meta, bAddress, refs, bList, doc, pc, out,
                   meta_check_disabled, frames, store, root_container,
                   field, threads, _CONDITIONS_REGISTRY, instances>>

\* v.validate_attribs(raise_exc)
ValidateAttribsOf(v, raise_exc) ==
    /\ validation' = validate_attribs_of(instances, v, raise_exc)
    /\ err' = validation'.raised
    /\ op' = <<"validate_attribs", v, FALSE, raise_exc>>
    /\ UNCHANGED <<parent, maps, meta, bAddress, refs, bList, doc, pc, out,
                   meta_check_disabled, frames, store, root_container,
                   field, threads, _CONDITIONS_REGISTRY, instances>>

\* v.validate_model(recursively, raise_exc): the finally clause switches
\* the checks of the metadata on
ValidateModelOf(v, recursively, raise_exc) ==
    /\ validation' = validate_model_of(instances, _CONDITIONS_REGISTRY, v,
                                       recursively, raise_exc)
    /\ err' = validation'.raised
    /\ op' = <<"validate_model", v, recursively, raise_exc>>
    /\ meta_check_disabled' = enable_meta_checks
    /\ UNCHANGED <<parent, maps, meta, bAddress, refs, bList, doc, pc, out,
                   frames, store, root_container,
                   field, threads, _CONDITIONS_REGISTRY, instances>>

\* ------------------------------------------------------------------------
\* rune_serialize (base_data_class.py)
\* ------------------------------------------------------------------------

\* how self.validate_model() can end inside rune_serialize: with the error
\* the shape of the tree forces, or else with or without an error of the
\* data
ValidationOutcomes(self) ==
    IF validate_model(State, self, <<>>) # "none"
    THEN {validate_model(State, self, <<>>)}
    ELSE {"none", "ValidationError", "ConditionViolationError"}

\* a finally clause that leaves the container where it is
rune_serialize_finally_keep(rc, self, e) == [rc |-> rc, err |-> e]

\* finally: self.__dict__.pop(ROOT_CONTAINER), entered with the error e on
\* its way out ("none" on return).  pop without a default raises KeyError
\* when the entry is missing, and that error replaces e.
rune_serialize_finally(rc, self, e) ==
    IF rc[self]
    THEN [rc |-> [rc EXCEPT ![self] = FALSE], err |-> e]
    ELSE [rc |-> rc, err |-> "KeyError"]

\* o.rune_serialize() up to the call of model_dump_json: validate_model,
\* then setdefault of the container and the three tags.  A failed
\* validation leaves through the finally clause.  op[3] is how
\* validate_model ended.
RuneSerializeEnter(o) ==
    /\ pc = "idle"
    /\ \E e \in ValidationOutcomes(o) :
        /\ op' = <<"rune_serialize", o, e>>
        /\ IF e = "none"
           THEN /\ root_container' = [root_container EXCEPT ![o] = TRUE]
                /\ pc' = "dump"
                /\ err' = "none"
           ELSE LET r == rune_serialize_finally(root_container, o, e)
                IN /\ root_container' = r.rc
                   /\ pc' = "idle"
                   /\ err' = r.err
    /\ UNCHANGED <<parent, maps, meta, bAddress, refs, bList, doc, out,
                   meta_check_disabled, frames, store,
                   field,
                   threads,
                   _CONDITIONS_REGISTRY,
                   instances,
                   validation>>

\* model_dump_json returns the document or raises, and rune_serialize is
\* left through the finally clause
RuneSerializeDump ==
    /\ pc = "dump"
    /\ \E e \in {"none", "PydanticSerializationError"} :
        LET r == rune_serialize_finally(root_container, op[2], e)
        IN /\ root_container' = r.rc
           /\ err' = r.err
           /\ out' = IF e = "none"
                     THEN _resolve_refs(State, op[2], "json")
                     ELSE out
    /\ pc' = "idle"
    /\ op' = <<"model_dump_json", op[2]>>
    /\ UNCHANGED <<parent, maps, meta, bAddress, refs, bList, doc,
                   meta_check_disabled, frames, store,
                   field,
                   threads,
                   _CONDITIONS_REGISTRY,
                   instances,
                   validation>>

\* ------------------------------------------------------------------------
\* Specifications
\* ------------------------------------------------------------------------

InitObjects ==
    /\ parent = [n \in Nodes |-> None]
    /\ maps = [n \in Nodes |-> EmptyMaps]
    /\ meta = [n \in Nodes |-> NoMetadata]
    /\ refs = [o \in ScopeNodes |-> NoRef]
    /\ bList = <<>>
    /\ err = "none"
    /\ op = <<"init", None>>
    /\ out = NoOut
    /\ meta_check_disabled = FALSE
    /\ frames = <<>>
    /\ store = NoStore
    /\ root_container = [n \in Nodes |-> FALSE]
    /\ threads = [t \in Threads |-> NotValidating]
    /\ _CONDITIONS_REGISTRY = [c \in Classes |-> <<>>]
    /\ instances = NoInstances
    /\ validation = NoViolations

\* the registry operations on objects built one by one
Init ==
    /\ InitObjects
    /\ bAddress = [o \in ScopeNodes |-> NoneVal]
    /\ doc = NoDoc
    /\ pc = "idle"
    /\ field = NoField("A")

Next ==
    \/ \E c, p \in Nodes : Attach(c, p)
    \/ \E n \in Nodes : Deserialize(n)
    \/ \E n \in Nodes : GetOrCreateKey(n)
    \/ \E n \in Nodes : SetExternalKey(n)

Spec == Init /\ [][Next]_vars

\* keys given to and minted for objects that are composed into a tree
NextKeys ==
    \/ \E c, p \in Nodes : Attach(c, p)
    \/ \E n \in Nodes : GetOrCreateKey(n)
    \/ \E n \in Nodes : SetExternalKeyExternal(n)

SpecKeys == Init /\ [][NextKeys]_vars

\* composition and aliasing: a Root is built with or without an object of
\* its own in bAddress
InitAlias ==
    /\ InitObjects
    /\ bAddress \in [ScopeNodes -> {NoneVal, OwnVal}]
    /\ doc = NoDoc
    /\ pc = "idle"
    /\ field = NoField("A")

NextAlias ==
    \/ \E c, p \in Nodes : Attach(c, p)
    \/ \E o \in Owners : SetAttrReference(o, "bAddress")

SpecAlias == InitAlias /\ [][NextAlias]_vars

\* assignments of References to a field with and to a field without declared
\* reference kinds
NextBind ==
    \/ \E o \in Owners : SetAttrReference(o, "bAddress")
    \/ \E o \in Owners : SetAttrReferenceUndeclared(o)

SpecBind == InitAlias /\ [][NextBind]_vars

\* serialization of a Root that owns b and aliases it in bAddress
NextDump ==
    \/ Attach("b", "root")
    \/ SetAttrReference("root", "bAddress")
    \/ \E o \in Owners : ModelDump(o)

SpecDump == InitAlias /\ [][NextDump]_vars

\* rune_serialize of a Root, between compositions, aliasings and plain
\* dumps; nothing else runs while a rune_serialize is under way
NextSerialize ==
    \/ pc = "idle" /\ Attach("b", "root")
    \/ pc = "idle" /\ SetAttrReference("root", "bAddress")
    \/ pc = "idle" /\ ModelDump("root")
    \/ \E o \in {"root", "b"} : RuneSerializeEnter(o)
    \/ RuneSerializeDump

SpecSerialize == InitAlias /\ [][NextSerialize]_vars

\* a Root whose b carries keys and whose bAddress is read from a reference
\* envelope and resolved
NextEnvelope ==
    \/ Deserialize("b")
    \/ Attach("b", "root")
    \/ EnvelopeDeserialize("root")
    \/ ResolveReferencesOf("root")

SpecEnvelope == Init /\ [][NextEnvelope]_vars

\* construction of a Root and assignments to its bAddress, of References and
\* of plain values
NextAssign ==
    \/ Attach("b", "root")
    \/ \E o \in Owners : ConstructWithReference(o)
    \/ \E o \in Owners : SetAttrReference(o, "bAddress")
    \/ \E o \in Owners : SetAttrValue(o)

SpecAssign == InitAlias /\ [][NextAssign]_vars

\* validate_model calls, nested up to MaxDepth
NextValidate ==
    \/ DisableMetaChecks
    \/ EnableMetaChecks
    \/ \E n \in Nodes : ValidateModelEnter(n)
    \/ ValidateAttribs
    \/ ValidateConditions

SpecValidate == Init /\ [][NextValidate]_vars

\* two threads, each validating its own tree
NextThreads ==
    \/ \E t \in Threads : ThreadValidateModelEnter(t)
    \/ \E t \in Threads : ThreadValidateAttribs(t)
    \/ \E t \in Threads : ThreadValidateConditions(t)

SpecThreads == Init /\ [][NextThreads]_vars

\* classes with conditions are defined and their instances validated, each
\* by itself
NextConditions ==
    \/ \E c \in Classes, name \in CondNames : RuneCondition(c, name)
    \/ \E t \in FlatTrees : Construct(t)
    \/ \E v \in Instances, raise_exc \in BOOLEAN :
           ValidateConditionsOf(v, FALSE, raise_exc)

SpecConditions == Init /\ [][NextConditions]_vars

\* the classes of the instances get a condition, a tree is built and
\* validated from its root
NextValidation ==
    \/ \E v \in Instances : RuneCondition(ClassOf(v), "c1")
    \/ \E t \in Trees : Construct(t)
    \/ \E recursively, raise_exc \in BOOLEAN :
           ValidateConditionsOf("v1", recursively, raise_exc)
    \/ \E raise_exc \in BOOLEAN : ValidateAttribsOf("v1", raise_exc)
    \/ \E recursively, raise_exc \in BOOLEAN :
           ValidateModelOf("v1", recursively, raise_exc)

SpecValidation == Init /\ [][NextValidation]_vars

\* the fields of the Roots are read from document nodes, and the Roots
\* themselves carry keys
NextNode ==
    \/ \E o \in Owners : NodeDeserialize(o)
    \/ \E n \in ScopeNodes : Deserialize(n)

SpecNode == Init /\ [][NextNode]_vars

\* the metadata of the value of one field, under validate_model calls
NextMeta ==
    \/ InitMeta
    \/ SetMeta
    \/ FieldDeserialize
    \/ ValidateModelEnter("root")
    \/ ValidateAttribs
    \/ ValidateConditions

SpecMeta == Init /\ [][NextMeta]_vars

\* fields of every declared class, read, constructed and written
InitTypes ==
    /\ InitObjects
    /\ bAddress = [o \in ScopeNodes |-> NoneVal]
    /\ doc = NoDoc
    /\ pc = "idle"
    /\ field \in {NoField(c) : c \in Classes}

NextTypes ==
    \/ TypedDeserialize
    \/ TypedConstruct
    \/ TypedSerialise

SpecTypes == InitTypes /\ [][NextTypes]_vars

\* rune_deserialize of one document
InitDeser ==
    /\ InitObjects
    /\ bAddress = [o \in ScopeNodes |-> NoneVal]
    /\ doc \in {d \in Docs : WellFormedDoc(d)}
    /\ pc = FirstStage(doc)
    /\ field = NoField("A")

NextDeser ==
    \/ BuildB
    \/ BuildRoot
    \/ BuildDeep
    \/ ResolveReferences
    \/ ValidateModel

SpecDeser == InitDeser /\ [][NextDeser]_vars

\* The scope tree as the specification describes it
\* ------------------------------------------------------------------------

RECURSIVE IsAncestorOrSelf(_, _, _)
IsAncestorOrSelf(par, a, n) ==
    \/ a = n
    \/ par[n] # None /\ IsAncestorOrSelf(par, a, par[n])

Subtree(par, s) == {n \in Nodes : IsAncestorOrSelf(par, s, n)}

\* the nearest ancestor of n, n included, that is a scope boundary, or None
RECURSIVE NearestScope(_, _)
NearestScope(par, n) ==
    IF n \in ScopeNodes THEN n
    ELSE IF par[n] = None THEN None
    ELSE NearestScope(par, par[n])

\* the registry a Scoped registration or lookup from n is to target
ScopeTarget(par, n) ==
    IF NearestScope(par, n) = None THEN n ELSE NearestScope(par, n)

NonScoped == {INTERNAL, EXTERNAL}

\* the registry the entries of kind t of the attached subtree root c are
\* merged into
MergeTarget(par, c, t) ==
    IF t = SCOPED /\ NearestScope(par, par[c]) # None
    THEN NearestScope(par, par[c])
    ELSE RootOf(par, c)

\* n registered a new key of kind t in this step
Registers(n, t) == meta'[n][t] # meta[n][t] /\ meta'[n][t] # NoKey

\* c is attached in this step
Attaches(c) == parent[c] = None /\ parent'[c] # None

\* ------------------------------------------------------------------------
\* Claims
\* ------------------------------------------------------------------------

\* the reference r of the document has a target: b carries the key r[1]
\* under the kind r[2]
HasTarget(d, r) == d.hasB /\ d.bKeys[r[2]] = r[1]

\* the references of the document d
DocRefs(d) ==
    {d.bList[i] : i \in 1..Len(d.bList)}
        \cup (IF d.bAddress = NoRef THEN {} ELSE {d.bAddress})

\* rune_deserialize has returned a model / has raised
Returned == pc = "done"
Raised == pc = "failed"

\* C1 (as claimed): for a document in which b carries the key K under a kind
\* and bAddress of root is a reference to K of that kind, deserialization
\* returns a model in which bAddress holds the very object b.
C1_AliasIdentity ==
    (/\ Returned \/ Raised
     /\ doc.bAddress # NoRef
     /\ HasTarget(doc, doc.bAddress))
    => /\ Returned
       /\ bAddress["root"] = NodeVal("b")

\* the resolution pass of rune_deserialize has returned without error
Resolved == pc = "validate" \/ op = <<"validate_model", "deep">>

\* C2 (as claimed): when the resolution pass has visited the tree, and so in
\* every model that deserialization returns, no field and no element of a
\* list field holds an UnresolvedReference.
C2_NoPlaceholderLeft ==
    (Resolved \/ Returned) =>
        /\ \A o \in ScopeNodes : bAddress[o].tag # "unresolved"
        /\ \A i \in 1..Len(bList) : bList[i].tag # "unresolved"

\* C3 (as claimed): deserializing a document that holds a reference whose
\* (kind, key) no node of the document carries raises KeyError, and no model
\* is returned.
C3_DanglingReferenceFails ==
    (\E r \in DocRefs(doc) : ~HasTarget(doc, r))
    => /\ ~Returned
       /\ Raised => err = "KeyError"

\* C4 (as claimed): a (kind, key) entry of a registry, once registered, never
\* comes to map to a different object; a second registration under the pair
\* fails instead.
C4_EntryNeverRemapped ==
    [][\A n \in Nodes, t \in KeyType, k \in Keys :
         maps[n][t][k] # None => maps'[n][t][k] \in {maps[n][t][k], None}]_vars

\* C5: attaching a subtree whose standalone registries hold a (kind, key)
\* that is already present in the registry the entry is merged into fails
\* with the duplicated-keys ValueError, at whatever ancestor the registry is.
C5_AttachCollisionFails ==
    [][\A c \in Nodes :
         (/\ Attaches(c)
          /\ \E t \in KeyType, k \in Keys :
                /\ maps[c][t][k] # None
                /\ ~(t = SCOPED /\ c \in ScopeNodes)
                /\ maps[MergeTarget(parent', c, t)][t][k] # None)
         => err' = "DuplicatedKeys"]_vars

\* C5 witness: b was attached under a scope boundary that already hangs
\* under deep, and its external key collided two levels up, in deep's registry
C5_Witness ==
    /\ op = <<"set_rune_parent", "b">>
    /\ err = "DuplicatedKeys"
    /\ parent["b"] \in ScopeNodes
    /\ parent[parent["b"]] = "deep"
    /\ meta["b"][EXTERNAL] # NoKey
    /\ maps["deep"][EXTERNAL][meta["b"][EXTERNAL]] = "root2"

\* C6: no node that has a parent holds Internal or External entries of its
\* own, every Internal or External registration lands in the registry of
\* the root of the tree, and every such lookup reads that registry.
C6_NonScopedAtRoot ==
    [][\A n \in Nodes, t \in NonScoped :
         /\ parent'[n] # None => MapKeys(maps'[n][t]) = {}
         /\ _get_object_map(parent', maps', n, t) = RootOf(parent', n)
         /\ Registers(n, t) =>
                maps'[RootOf(parent', n)][t][meta'[n][t]] = n]_vars

\* C6 witness: b, two levels below the root deep, has registered an external
\* key, and the entry is in deep's registry
C6_Witness ==
    /\ op = <<"set_external_key", "b">>
    /\ err = "none"
    /\ parent["b"] \in ScopeNodes
    /\ parent[parent["b"]] = "deep"
    /\ meta["b"][EXTERNAL] # NoKey
    /\ maps["deep"][EXTERNAL][meta["b"][EXTERNAL]] = "b"

\* C7 (as claimed): a Scoped registration issued from n lands in the registry
\* of the nearest scope boundary above n (n included), or in n's own
\* registry when there is none, in every order of attach and register.
C7_ScopedAtNearestBoundary ==
    [][\A n \in Nodes :
         Registers(n, SCOPED) =>
            maps'[ScopeTarget(parent, n)][SCOPED][meta'[n][SCOPED]] = n]_vars

\* C8: attaching a scope boundary that holds Scoped keys raises no
\* duplicated-keys error on account of them, and afterwards a Scoped lookup
\* of each of its keys from inside its subtree returns the subtree's own
\* object, also when a sibling boundary holds the same key string.
C8_ScopedKeysIsolated ==
    [][\A c \in ScopeNodes :
         (/\ Attaches(c)
          /\ ~\E t \in NonScoped, k \in Keys :
                /\ maps[c][t][k] # None
                /\ maps[RootOf(parent', c)][t][k] # None)
         => /\ err' = "none"
            /\ \A k \in MapKeys(maps[c][SCOPED]), n \in Subtree(parent', c) :
                  get_object_by_key(parent', maps', n, k, SCOPED)
                    = maps[c][SCOPED][k]]_vars

\* C8 witness: root and root2 both hang under deep, each registered the same
\* Scoped key string for an object of its own, and each resolves it to that
\* object
C8_Witness ==
    /\ op = <<"set_rune_parent", "root2">>
    /\ err = "none"
    /\ parent["root"] = "deep" /\ parent["root2"] = "deep"
    /\ parent["b"] = "root"
    /\ \E k \in DocKeys :
          /\ meta["b"][SCOPED] = k /\ meta["root2"][SCOPED] = k
          /\ get_object_by_key(parent, maps, "b", k, SCOPED) = "b"
          /\ get_object_by_key(parent, maps, "root", k, SCOPED) = "b"
          /\ get_object_by_key(parent, maps, "root2", k, SCOPED) = "root2"

\* C9 (as claimed): a Scoped key registered by an object inside a scope
\* boundary's subtree does not resolve to that object from any node outside
\* the subtree.
C9_ScopedInvisibleOutside ==
    \A o \in Nodes :
        (meta[o][SCOPED] # NoKey /\ NearestScope(parent, o) # None) =>
            \A n \in Nodes \ Subtree(parent, NearestScope(parent, o)) :
                get_object_by_key(parent, maps, n, meta[o][SCOPED], SCOPED) # o

CanCallGetOrCreateKey(n) == meta[n][INTERNAL] # NoKey \/ CanMint(State)

\* C11: a successful get_or_create_key on a node without Internal key mints
\* a key, stores it on the node and registers it so that an Internal lookup
\* of the key from the node returns the node, and touches no other node's
\* metadata; a call on a node that has an Internal key returns that key and
\* changes nothing, so that a second call repeats the first call's key.
C11_GetOrCreateKeyIdempotent ==
    \A n \in Nodes :
        CanCallGetOrCreateKey(n) =>
            LET r == get_or_create_key(State, n)
                r2 == get_or_create_key(r.st, n)
            IN r.err = "none" =>
                /\ r.key # NoKey
                /\ r.st.meta[n][INTERNAL] = r.key
                /\ meta[n][INTERNAL] # NoKey =>
                        r.key = meta[n][INTERNAL] /\ r.st = State
                /\ meta[n][INTERNAL] = NoKey =>
                        /\ r.key \in UuidKeys
                        /\ get_object_by_key(r.st.parent, r.st.maps, n,
                                             r.key, INTERNAL) = n
                        /\ \A o \in Nodes \ {n} : r.st.meta[o] = meta[o]
                /\ r2.err = "none" /\ r2.key = r.key /\ r2.st = r.st

\* C11 witness: b, two levels below deep, has minted a key, which is stored
\* on b and registered for b in deep's registry
C11_Witness ==
    /\ op = <<"get_or_create_key", "b">>
    /\ err = "none"
    /\ meta["b"][INTERNAL] \in UuidKeys
    /\ parent["b"] \in ScopeNodes
    /\ parent[parent["b"]] = "deep"
    /\ maps["deep"][INTERNAL][meta["b"][INTERNAL]] = "b"

\* C12: a get_or_create_key that raises leaves the node without Internal key
\* and every registry and every node's metadata as they were.
C12_GetOrCreateKeyNoPartialState ==
    \A n \in Nodes :
        CanCallGetOrCreateKey(n) =>
            LET r == get_or_create_key(State, n)
            IN r.err # "none" =>
                /\ r.err \in ValueErrors
                /\ r.key = NoKey
                /\ r.st.meta[n][INTERNAL] = NoKey
                /\ r.st = State

\* C12 witness: get_or_create_key was called on root, whose allow-list has
\* no Internal key tag, while it hangs under deep: it raised, root carries no
\* Internal key and no registry holds a minted key
C12_Witness ==
    /\ op = <<"get_or_create_key", "root">>
    /\ err = "NotAllowedMetadata"
    /\ parent["root"] = "deep"
    /\ meta["root"][INTERNAL] = NoKey
    /\ \A n \in Nodes, k \in UuidKeys : maps[n][INTERNAL][k] = None

\* the keys a caller passes to set_external_key
CallerKeys == DocKeys \cup OtherKeys

\* C13 (as claimed): set_external_key with a key that differs from the
\* External key the node has raises and changes nothing; with the key the
\* node has it changes nothing; in every other case it stores the key and
\* registers it so that an External lookup from the node returns the node.
C13_SetExternalKeyCases ==
    \A n \in Nodes, key \in CallerKeys :
        LET r == set_external_key(State, n, key, EXTERNAL)
            aux == meta[n][EXTERNAL]
        IN /\ (aux # NoKey /\ aux # key) =>
                r.err = "AlreadyHasExternalKey" /\ r.st = State
           /\ aux = key => r.err = "none" /\ r.st = State
           /\ aux = NoKey =>
                /\ r.err = "none"
                /\ r.st.meta[n][EXTERNAL] = key
                /\ get_object_by_key(r.st.parent, r.st.maps, n, key,
                                     EXTERNAL) = n

\* C13 (amended): as claimed, except that a node without External key whose
\* allow-list lacks the External key tag is refused with the not-allowed
\* ValueError and nothing changes; only a node whose allow-list has the tag
\* gets the key stored and registered.
C13_SetExternalKeyCasesAllowed ==
    \A n \in Nodes, key \in CallerKeys :
        LET r == set_external_key(State, n, key, EXTERNAL)
            aux == meta[n][EXTERNAL]
        IN /\ (aux # NoKey /\ aux # key) =>
                r.err = "AlreadyHasExternalKey" /\ r.st = State
           /\ aux = key => r.err = "none" /\ r.st = State
           /\ (aux = NoKey /\ EXTERNAL \in allowed_meta(n)) =>
                /\ r.err = "none"
                /\ r.st.meta[n][EXTERNAL] = key
                /\ \A o \in Nodes \ {n} : r.st.meta[o] = meta[o]
                /\ get_object_by_key(r.st.parent, r.st.maps, n, key,
                                     EXTERNAL) = n
           /\ (aux = NoKey /\ EXTERNAL \notin allowed_meta(n)) =>
                r.err = "NotAllowedMetadata" /\ r.st = State

\* C13 witness: b, two levels below deep, holds an External key registered
\* in deep's registry, and a set_external_key with the other key string was
\* refused
C13_Witness ==
    /\ op = <<"set_external_key", "b">>
    /\ err = "AlreadyHasExternalKey"
    /\ meta["b"][EXTERNAL] \in CallerKeys
    /\ parent["b"] \in ScopeNodes
    /\ parent[parent["b"]] = "deep"
    /\ maps["deep"][EXTERNAL][meta["b"][EXTERNAL]] = "b"

\* the References a caller can hand to bind_property_to
BindRefs == [target : Nodes, target_key : Keys, key_type : KeyType]

\* precondition 1: the kind of the reference is declared for the field
KindAllowed(self, property_nm, ref) ==
    ref.key_type \in allowed_ref_types(self, property_nm)

\* precondition 2: the target is of the declared type of the field
TypeCompatible(ref) == IsInstanceOfB(ref.target)

\* precondition 3: the field is an alias already, or its current value is a
\* placeholder, or an object that permits the kind of the reference
Aliasable(self, ref) ==
    \/ refs[self] # NoRef
    \/ bAddress[self].tag \in {"unresolved", "reference"}
    \/ /\ bAddress[self].tag \in {"own", "node"}
       /\ ref.key_type \in old_val_allowed_refs(bAddress[self])

C15_ReferenceEnvelope ==
    \A o \in Owners :
        (op = <<"model_dump", o>> /\ refs[o] # NoRef) =>
            LET target == bAddress[o]
                kind == refs[o][2]
            IN /\ target.tag = "node"
               /\ out.bAddress \cap DataItems = {}
               /\ \E k \in Keys :
                    /\ <<rune_key_tag(kind), k>> \in serialise(State, target)
                    /\ out.bAddress = {<<rune_ref_tag(kind), k>>}

C17_FieldHoldsTarget ==
    /\ \A o \in Owners : bAddress[o].tag # "reference"
    /\ \A o \in Owners :
        (op \in {<<"construct", o>>, <<"setattr_reference", o>>}
            /\ err = "none") => bAddress[o].tag = "node"

\* a call of validate_model is left in this step
Exits == Len(frames') < Len(frames)

\* C18 (as claimed): while a call of validate_model is running the checks
\* are switched off, and the step that leaves a call puts the switch back to
\* the value it had when that call was entered.
C18_SuspendedAndRestored ==
    [][/\ frames' # <<>> => meta_check_disabled'
       /\ Exits => meta_check_disabled' = Top.before]_vars

\* C19: the step that leaves a call of validate_model switches the checks
\* on, also when an outer call is still running, and the steps of the outer
\* call that follow do not switch them off again: only entering another
\* call does.
C19_InnerExitEnables ==
    [][/\ Exits => ~meta_check_disabled'
       /\ (frames # <<>> /\ Len(frames') = Len(frames)) =>
            meta_check_disabled' = meta_check_disabled]_vars

\* C19 witness: an inner call has returned, the outer call is still checking
\* its conditions, and the checks are switched on
C19_Witness ==
    /\ op[1] = "validate_model_return"
    /\ Len(frames) = 1
    /\ frames[1].step = "conditions"
    /\ ~meta_check_disabled

\* every node the document holds is built and attached
TreeBuilt ==
    /\ doc.hasB => parent["b"] = "root"
    /\ doc.hasRoot => parent["root"] = "deep"
    /\ Len(bList) = Len(doc.bList)

C28_SetMetaAllOrNothing ==
    \A kwds \in Kwds :
        LET r == set_meta(store, TRUE, kwds)
            tags == {_py_to_ser_key(k) : k \in DOMAIN kwds}
        IN /\ (r.err # "none") <=> ~(tags \subseteq Slots(store))
           /\ r.err # "none" =>
                r.err = "NotAllowedMetadata" /\ r.st = store
           /\ (store = NoStore /\ tags # {}) => r.err = "NotAllowedMetadata"
           /\ r.err = "none" =>
                /\ \A k \in DOMAIN kwds :
                        r.st[_py_to_ser_key(k)] = kwds[k]
                /\ \A t \in MetaTags \ tags : r.st[t] = store[t]

\* C28 witness: a set_meta that supplied an allowed and a foreign tag was
\* refused on a container that has the slots of the allow-list, all empty
C28_Witness ==
    /\ op = <<"set_meta", None>>
    /\ err = "NotAllowedMetadata"
    /\ Slots(store) = FieldAllowed
    /\ Carried(store) = {}

\* C30: init_meta fails with the allow-list ValueError, and changes nothing,
\* exactly when the container has a slot outside the allow-list; otherwise
\* the slots become the union with the allow-list, the new ones empty, no
\* slot that was there changes, and a second call with the same allow-list
\* changes nothing.
C30_InitMetaIdempotent ==
    \A allowed \in SUBSET MetaTags :
        LET r == init_meta(store, allowed)
        IN /\ (r.err # "none") <=> ~(Slots(store) \subseteq allowed)
           /\ r.err # "none" =>
                r.err = "AllowedMetaDiffers" /\ r.st = store
           /\ r.err = "none" =>
                /\ Slots(r.st) = Slots(store) \cup allowed
                /\ \A t \in Slots(store) : r.st[t] = store[t]
                /\ \A t \in allowed \ Slots(store) : r.st[t] = NoKey
                /\ init_meta(r.st, allowed) = Ok(r.st)

\* C30 witness: init_meta was refused on a container that carries a tag
\* outside the allow-list of the field
C30_Witness ==
    /\ op = <<"init_meta", None>>
    /\ err = "AllowedMetaDiffers"
    /\ ~(Slots(store) \subseteq FieldAllowed)

\* C29 (as claimed): in every reachable state the tags that carry a value in
\* the metadata of the value a field holds are tags of the allow-list
\* declared for the field, whatever was constructed, deserialized or set,
\* also while a validate_model call is running.
C29_TagsWithinAllowList == Carried(store) \subseteq FieldAllowed

\* ------------------------------------------------------------------------
\* C24: the root envelope (__rune_root_metadata) exists only on the object
\* rune_serialize was called on, and only while that call produces its
\* output: once rune_serialize has returned or failed, no object holds a
\* root envelope.  No nested node is written with the root-only tags
\* @model and @version, by rune_serialize or by a later dump.
\* ------------------------------------------------------------------------
RootOnlyTags == {"@model", "@version"}

C24_RootEnvelopeTransient ==
    /\ pc = "idle" => \A n \in Nodes : ~root_container[n]
    /\ pc = "dump" => \A n \in Nodes : root_container[n] <=> n = op[2]
    /\ \A item \in out.b \cup out.bAddress : item[1] \notin RootOnlyTags

\* rune_serialize has returned the document of a Root, written with the
\* root envelope, and has left no root envelope behind
C24_Witness ==
    /\ op = <<"model_dump_json", "root">>
    /\ err = "none"
    /\ {item[1] : item \in out.root} = RootTags
    /\ \A n \in Nodes : ~root_container[n]

\* ------------------------------------------------------------------------
\* C25 (as claimed): when validate_model fails inside rune_serialize, the
\* error the caller of rune_serialize receives is that validation error.
\* ------------------------------------------------------------------------
C25_ValidationErrorReachesCaller ==
    (op[1] = "rune_serialize" /\ op[3] # "none") => err = op[3]

\* ------------------------------------------------------------------------
\* C26: deserializing a nested node that is not a reference envelope: an
\* '@type' tag that does not name the declared class of the field or one
\* of its subclasses makes deserialization fail; a tag that does, on a node
\* whose fields fit, gives an object of exactly the class the tag names; a
\* node without tag gives an object of the declared class.
\* ------------------------------------------------------------------------

\* the classes a tag names: the class whose module path the tag is
Named(tag) == {c \in Classes : __module__(c) = tag}

C26_TypeTagRespected ==
    (op = <<"deserialize", "field">> /\ ~field.node.ref) =>
        LET tag == field.node.type
            ok == {c \in Named(tag) : issubclass(c, field.declared)}
        IN /\ (tag # NoTag /\ ok = {}) =>
                    err # "none" /\ field.value = None
           /\ (tag # NoTag /\ ok # {} /\ field.node.valid) =>
                    err = "none" /\ {field.value} = ok
           /\ (tag = NoTag /\ field.node.valid) =>
                    err = "none" /\ field.value = field.declared

\* a node tagged as C was read into a field declared as A
C26_Witness ==
    /\ op = <<"deserialize", "field">>
    /\ field.declared = "A"
    /\ field.node.type = __module__("C")
    /\ field.value = "C"
    /\ err = "none"

\* ------------------------------------------------------------------------
\* C27: serialise writes an '@type' tag for a nested object exactly when
\* the class of the object is not the declared class of the field, and
\* reading the written node back into the field gives an object of the
\* same class.
\* ------------------------------------------------------------------------
C27_TaggedWhenSubtype ==
    op = <<"serialise", "field">> =>
        /\ field.written # NoTag <=> field.value # field.declared
        /\ field.written # NoTag => field.written = __module__(field.value)
        /\ deserialize_typed(field.declared,
                [type |-> field.written, ref |-> FALSE, valid |-> TRUE])
             = [value |-> field.value, err |-> "none"]

\* an object of class B in a field declared as A was written with its tag
C27_Witness ==
    /\ op = <<"serialise", "field">>
    /\ field.declared = "A"
    /\ field.value = "B"
    /\ field.written = __module__("B")

\* ------------------------------------------------------------------------
\* C21 (as claimed): during deserialization a nested node is attached to its
\* parent before its key tags are registered, and the key tags of every node
\* of the document are registered before the resolution pass starts.
\* ------------------------------------------------------------------------

\* the resolution pass runs in this step
Resolves == pc = "resolve" /\ pc' # "resolve"

C21_NodeStatesInOrder ==
    [][/\ \A n \in Nodes \ {"deep"} :
            (\E t \in KeyType : Registers(n, t)) => parent[n] # None
       /\ Resolves => (doc.hasB => meta["b"] = doc.bKeys)]_vars

\* ------------------------------------------------------------------------
\* C23 (as claimed): of the reference tags of an envelope exactly one is
\* kept, the Scoped one before the External one before the Internal one,
\* and an envelope of these tags is never refused as ambiguous; the field
\* then resolves through the key of the kept tag: once resolve_references
\* has run on the Root, no placeholder is left whose key b carries under
\* the kept kind.
\* ------------------------------------------------------------------------

\* the kind of highest precedence among the kinds ts
Precedence(ts) ==
    IF SCOPED \in ts THEN SCOPED
    ELSE IF EXTERNAL \in ts THEN EXTERNAL
    ELSE INTERNAL

C23_OneReferenceKept ==
    /\ op[1] = "deserialize_reference" =>
            LET top == Precedence({t \in KeyType : op[3][t] # NoKey})
            IN /\ err = "none"
               /\ bAddress[op[2]] = UnresolvedReference(op[3][top], top)
    /\ op = <<"resolve_references", "root">> =>
            LET v == bAddress["root"]
            IN ~(/\ v.tag = "unresolved"
                 /\ parent["b"] = "root"
                 /\ meta["b"][v.key_type] = v.key)

\* ------------------------------------------------------------------------
\* C22 (as claimed): for every document without dangling reference,
\* rune_deserialize returns a model, and what rune_serialize writes for the
\* model reads back as the same document: the same nodes, the same key
\* tags, the same references.
\* ------------------------------------------------------------------------

\* the reference a written envelope reads back as: an envelope is a
\* reference when its one entry is a reference tag
ReadRef(items) ==
    IF \E t \in KeyType, k \in Keys : items = {<<rune_ref_tag(t), k>>}
    THEN CHOOSE r \in Keys \X KeyType : items = {<<rune_ref_tag(r[2]), r[1]>>}
    ELSE NoRef

\* the key tags written items read back as
ReadKeys(items) ==
    [t \in KeyType |->
        IF \E k \in Keys : <<rune_key_tag(t), k>> \in items
        THEN CHOOSE k \in Keys : <<rune_key_tag(t), k>> \in items
        ELSE NoKey]

\* the document that the dump of the model in memory reads back as; a
\* placeholder in a list has no dump
Reserialized ==
    LET res == _resolve_refs(State, "root", "json")
    IN [hasRoot |-> parent["root"] = "deep",
        hasB |-> parent["b"] = "root",
        bKeys |-> ReadKeys(res.b),
        bAddress |-> ReadRef(res.bAddress),
        bList |-> [i \in 1..Len(bList) |-> NoRef]]

C22_RoundTrip ==
    ((Returned \/ Raised) /\ \A r \in DocRefs(doc) : HasTarget(doc, r)) =>
        Returned /\ Reserialized = doc

\* ------------------------------------------------------------------------
\* C37 (as claimed): an attach that fails with duplicated keys changes
\* nothing: the subtree has no parent and keeps its standalone registries,
\* and no registry of an ancestor has received an entry.
\* ------------------------------------------------------------------------
C37_FailedAttachAtomic ==
    [][(op'[1] = "set_rune_parent" /\ err' = "DuplicatedKeys") =>
            parent' = parent /\ maps' = maps]_vars

\* ------------------------------------------------------------------------
\* C39: a bind_property_to that raises changes nothing, whichever of its
\* checks refuses (the kind of the reference, the type of the target, the
\* current value of the field): every field keeps its value, the recorded
\* bindings are the same, and no registry, key tag or parent changes.  (The
\* empty __rune_references the third check may leave behind records no
\* binding.)
\* ------------------------------------------------------------------------
C39_FailedBindChangesNothing ==
    \A o \in Owners, ref \in BindRefs, property_nm \in {"bAddress", "b"} :
        LET r == bind_property_to(State, o, property_nm, ref)
        IN r.err # "none" =>
            /\ r.err \in {"RefTypeNotAllowed", "IncompatibleTypes",
                           "CantBeAReference", "NotAllowedMetadata"}
            /\ r.st.bAddress = bAddress
            /\ r.st.refs = refs
            /\ r.st.maps = maps
            /\ r.st.meta = meta
            /\ r.st.parent = parent

\* a Reference to root2, which is no B, was assigned to bAddress of root
\* while the field held an object of its own: the type was refused and the
\* field still holds the object, unbound
C39_Witness ==
    /\ op = <<"setattr_reference", "root">>
    /\ err = "IncompatibleTypes"
    /\ bAddress["root"] = OwnVal
    /\ refs["root"] = NoRef
    /\ meta["root2"][SCOPED] # NoKey

\* ------------------------------------------------------------------------
\* C36: a successful attach preserves what was resolvable: a key of any
\* kind that a node of the attached subtree resolved to an object before
\* the attach resolves from that node to the same object after it, and a
\* recorded binding whose key the owner of the field resolved to the value
\* of the field still does so.
\* ------------------------------------------------------------------------

\* the owner o of a bound field resolves the key of the binding to the
\* object the field holds
BindingResolves(par, mps, o) ==
    get_object_by_key(par, mps, o, refs[o][1], refs[o][2]) = bAddress[o].id

C36_AttachPreservesResolvability ==
    [][\A c \in Nodes :
        (op' = <<"set_rune_parent", c>> /\ err' = "none") =>
            /\ \A n \in Subtree(parent, c), t \in KeyType, k \in Keys :
                  LET o == get_object_by_key(parent, maps, n, k, t)
                  IN o # "KeyError" =>
                        get_object_by_key(parent', maps', n, k, t) = o
            /\ \A o \in Owners :
                  (refs[o] # NoRef /\ BindingResolves(parent, maps, o)) =>
                        /\ refs'[o] = refs[o] /\ bAddress'[o] = bAddress[o]
                        /\ BindingResolves(parent', maps', o)]_vars

\* root, which holds b and is bound to it in bAddress by a Scoped key, was
\* attached under deep: the key is still resolved from b and from root
C36_Witness ==
    /\ op = <<"set_rune_parent", "root">>
    /\ err = "none"
    /\ parent["b"] = "root"
    /\ refs["root"] # NoRef /\ refs["root"][2] = SCOPED
    /\ bAddress["root"] = NodeVal("b")
    /\ get_object_by_key(parent, maps, "b", refs["root"][1], SCOPED) = "b"

\* ------------------------------------------------------------------------
\* C34: the registries of trees with different roots are independent: a
\* key registered or minted for a node of one tree changes the result of no
\* lookup made from a node of another tree.
\* ------------------------------------------------------------------------
C34_TreesIndependent ==
    [][\A n \in Nodes :
        op' \in {<<"deserialize", n>>, <<"get_or_create_key", n>>,
                 <<"set_external_key", n>>} =>
            \A m \in Nodes, t \in KeyType, k \in Keys :
                RootOf(parent, m) # RootOf(parent, n) =>
                    get_object_by_key(parent', maps', m, k, t)
                        = get_object_by_key(parent, maps, m, k, t)]_vars

\* root2 took the External key that b carries in the tree of root: each
\* tree resolves the key to its own object
C34_Witness ==
    /\ op = <<"set_external_key", "root2">>
    /\ err = "none"
    /\ parent["b"] = "root"
    /\ parent["root"] = None /\ parent["root2"] = None
    /\ meta["b"][EXTERNAL] # NoKey
    /\ meta["root2"][EXTERNAL] = meta["b"][EXTERNAL]
    /\ get_object_by_key(parent, maps, "b", meta["b"][EXTERNAL], EXTERNAL) = "b"
    /\ get_object_by_key(parent, maps, "root2", meta["b"][EXTERNAL], EXTERNAL)
            = "root2"

\* ------------------------------------------------------------------------
\* C38 (as claimed): while a thread is inside validate_model the checks are
\* switched off, whatever the other thread does: the exit of one call does
\* not switch the checks on while the call of the other thread is running.
\* ------------------------------------------------------------------------
C38_SuspendedPerThread ==
    (\E t \in Threads : Validating(t)) => meta_check_disabled


\* the place of the condition name of class c in a list of conditions
PlacesOf(conds, c, name) == {j \in DOMAIN conds : conds[j] = <<c, name>>}

\* C31: get_conditions of a class lists the conditions of the class and of
\* every ancestor of it, each once and under the name of its class, the
\* conditions of an ancestor before those of a descendant and those of one
\* class in the order they were declared; validate_conditions evaluates
\* them in that order, all of them unless one is raised.
C31_BaseToDerived ==
    /\ \A cls \in Classes :
          LET conds == get_conditions(_CONDITIONS_REGISTRY, cls,
                                      "BaseDataClass")
              reg == _CONDITIONS_REGISTRY
          IN /\ \A c \in Classes : \A i \in DOMAIN reg[c] :
                    issubclass(cls, c) =>
                        Cardinality(PlacesOf(conds, c, reg[c][i])) = 1
             /\ \A j \in DOMAIN conds :
                    /\ issubclass(cls, conds[j][1])
                    /\ \E i \in DOMAIN reg[conds[j][1]] :
                           reg[conds[j][1]][i] = conds[j][2]
             /\ \A j, k \in DOMAIN conds :
                    j < k =>
                        /\ issubclass(conds[k][1], conds[j][1])
                        /\ conds[k][1] = conds[j][1] =>
                               \E i1, i2 \in DOMAIN reg[conds[j][1]] :
                                   /\ i1 < i2
                                   /\ reg[conds[j][1]][i1] = conds[j][2]
                                   /\ reg[conds[j][1]][i2] = conds[k][2]
    /\ \A v \in Instances, raise_exc \in BOOLEAN :
          op = <<"validate_conditions", v, FALSE, raise_exc>> =>
              LET conds == get_conditions(_CONDITIONS_REGISTRY, ClassOf(v),
                                          "BaseDataClass")
                  done == validation.evaluated
              IN /\ Len(done) <= Len(conds)
                 /\ \A j \in DOMAIN done : done[j] = <<v, conds[j]>>
                 /\ validation.raised = "none" => Len(done) = Len(conds)

\* an ancestor and a descendant declared a condition of one name; both
\* were evaluated on an instance of the descendant and both failed
C31_Witness ==
    /\ op = <<"validate_conditions", "v1", FALSE, FALSE>>
    /\ "v1" \in instances.bad
    /\ \E i, j \in DOMAIN validation.evaluated :
          /\ i < j
          /\ validation.evaluated[i] = <<"v1", <<"A", "c1">> >>
          /\ validation.evaluated[j] = <<"v1", <<"C", "c1">> >>
    /\ Len(validation.errors) = 2
    /\ validation.errors[1].name = <<"A", "c1">>
    /\ validation.errors[2].name = <<"C", "c1">>


\* the evaluations of a call that found the condition false
Failed(r) ==
    SelectSeq(r.evaluated, LAMBDA e : ~condition(instances, e[2], e[1]))

\* the structural errors the call on v finds, if it validates attributes
Structural(entry, v) ==
    IF entry = "validate_conditions" THEN <<>>
    ELSE validate_attribs_of(instances, v, FALSE).errors

\* C33: validate_model, validate_conditions and validate_attribs called to
\* raise end with the first violation they find, a structural one before
\* any condition is evaluated and a failed condition as the last one that
\* is evaluated; called to collect they raise neither, and the list they
\* return holds the structural error first and then one violation for
\* every condition found false, in the order of evaluation, so that it is
\* empty exactly when nothing failed.
C33_RaiseOrCollect ==
    \A v \in Instances, recursively \in BOOLEAN :
      \A entry \in {"validate_model", "validate_conditions",
                    "validate_attribs"} :
        LET r == validation
            n == Len(r.evaluated)
        IN /\ op = <<entry, v, recursively, TRUE>> =>
                /\ Structural(entry, v) # <<>> =>
                       /\ r.raised = "ValidationError"
                       /\ r.evaluated = <<>>
                       /\ r.errors = Structural(entry, v)
                /\ r.raised = "ValidationError" => Structural(entry, v) # <<>>
                /\ r.raised = "ConditionViolationError" =>
                       /\ n > 0
                       /\ Failed(r) = <<r.evaluated[n]>>
                       /\ r.errors = <<ConditionViolationError(
                                          r.evaluated[n][2],
                                          r.evaluated[n][1])>>
                /\ r.raised \in {"none", "RecursionError"} =>
                       Failed(r) = <<>> /\ r.errors = <<>>
           /\ op = <<entry, v, recursively, FALSE>> =>
                /\ r.raised \notin {"ValidationError",
                                    "ConditionViolationError"}
                /\ r.raised = "none" =>
                       /\ r.errors = Structural(entry, v) \o
                              [i \in DOMAIN Failed(r) |->
                                  ConditionViolationError(Failed(r)[i][2],
                                                          Failed(r)[i][1])]
                       /\ r.errors = <<>> <=>
                              Structural(entry, v) = <<>> /\ Failed(r) = <<>>

\* validate_model called to collect returned a structural error followed by
\* the violations of two instances
C33_Witness ==
    /\ op = <<"validate_model", "v1", TRUE, FALSE>>
    /\ validation.raised = "none"
    /\ Len(validation.errors) >= 3
    /\ validation.errors[1].kind = "ValidationError"
    /\ validation.errors[2].kind = "ConditionViolationError"
    /\ validation.errors[2].obj = "v1"
    /\ validation.errors[3].obj = "v2"


\* no instance knows a parent and no field is bound as an alias: the fields
\* hold the tree and nothing else
Plain(t) ==
    /\ \A v \in Instances : t.rune_parent[v] = None
    /\ t.value["v1"].items # <<"v1">>
    /\ t.value["v2"].items \notin {<<"v1">>, <<"v2">>}

\* C32: validate_model and validate_conditions called on the root to
\* validate recursively and to collect return, for every instance the
\* fields of the tree lead to, through a single-valued field, a list, a
\* tuple or a set, and for every condition of its class that is false on
\* it, a violation that names the condition and the instance.
C32_EveryFailingNodeReported ==
    \A entry \in {"validate_model", "validate_conditions"} :
        (op = <<entry, "v1", TRUE, FALSE>> /\ Plain(instances)) =>
            /\ validation.raised = "none"
            /\ \A v \in Validated(instances, {"v1"}, {}) :
                  LET conds == get_conditions(_CONDITIONS_REGISTRY,
                                              ClassOf(v), "BaseDataClass")
                  IN \A j \in DOMAIN conds :
                        ~condition(instances, conds[j], v) =>
                            \E i \in DOMAIN validation.errors :
                                validation.errors[i] =
                                    ConditionViolationError(conds[j], v)

\* C40: the recursive validation of instances none of which knows a
\* parent returns or raises a violation, whatever aliases their fields
\* hold; it does not recurse without end.
C40_ValidationTerminates ==
    (/\ op[1] \in {"validate_conditions", "validate_model"}
     /\ \A v \in Instances : instances.rune_parent[v] = None)
        => validation.raised # "RecursionError"


\* C35: a document node with a reference tag becomes an UnresolvedReference
\* in the field; whatever key tags and data the node carries beside it, no
\* object gets metadata from the node and no registry gets an entry.
C35_ReferenceNodeBuildsNothing ==
    [][\A o \in Owners :
        (/\ op'[1] = "deserialize_node"
         /\ op'[2] = o
         /\ op'[3].refs # NoMetadata)
            => /\ err' = "none"
               /\ bAddress'[o].tag = "unresolved"
               /\ \E t \in KeyType :
                     /\ op'[3].refs[t] # NoKey
                     /\ bAddress'[o] = UnresolvedReference(op'[3].refs[t], t)
               /\ maps' = maps
               /\ meta' = meta
               /\ parent' = parent
               /\ refs' = refs]_vars

\* a node with a reference tag, a key tag and data was read into the field
\* of root: the field holds the placeholder, b has no key and root's
\* registry no entry for it
C35_Witness ==
    /\ op[1] = "deserialize_node"
    /\ op[2] = "root"
    /\ op[3].refs[SCOPED] # NoKey
    /\ op[3].keys[EXTERNAL] # NoKey
    /\ op[3].data
    /\ bAddress["root"] = UnresolvedReference(op[3].refs[SCOPED], SCOPED)
    /\ meta["b"] = NoMetadata
    /\ \A n \in Nodes, t \in KeyType, k \in DocKeys :
          get_object_by_key(parent, maps, n, k, t) # "b"

====
